---- MODULE Spec2Model ----
\* State-machine model of the HaruQuant backtesting core:
\*   hqt::EventLoop  (cpp/include/hqt/core/event_loop.hpp)
\*   hqt::Engine     (cpp/include/hqt/core/engine.hpp), run control only
\* Program state keeps the names of the C++ members; the variables handled,
\* pushed, call, last and rejected are history variables that record what the
\* handler and the callers observed. The locals event, i, n of a call are reset
\* when the call ends (they are dead then).
EXTENDS Integers, Sequences, FiniteSets, TLC

\* ------------------------------------------------------------------ bounds
MaxEvents == 2      \* events pushed over a behaviour
MaxTs == 2          \* timestamps are drawn from 1..MaxTs (ties are possible)
MaxStepN == 1       \* step(n, handler) is called with n in 0..MaxStepN

Threads == {1, 2}   \* threads that may call run or step
NoThread == 0
Ids == 1..MaxEvents
Timestamps == 1..MaxTs
NoEvent == [id |-> 0, ts |-> 0]

VARIABLES
    \* ---- EventLoop members
    queue_,               \* std::priority_queue<Event,...>: the set of queued events
    running_, paused_, stopped_,
    events_processed_, current_timestamp_,
    mutex_,               \* holder of mutex_ (a thread), or NoThread
    \* ---- per-thread position and locals of run / step
    pc, event, i, n,
    \* ---- Engine members and the position of Engine::run / run_steps
    eng,
    \* ---- CTrade members (the ledger) and the history of its calls
    trade,
    \* ---- GlobalClock members, and what the last on_tick_ invocation observed
    global_clock_, on_tick_,
    \* ---- WriteAheadLog members, the file behind it and the history of its calls
    wal,
    \* ---- BarDataFeed: the loaded series and the last query with its result
    feed,
    \* ---- the last visit of the ledger's positions_ map and what it met
    visit,
    \* ---- MarginCalculator: the last stop-out query and its answers
    calc,
    \* ---- history variables
    handled,              \* events handed to the handler, in order
    pushed,               \* number of events pushed so far
    call,                 \* the accepted run/step call in progress
    last,                 \* how the last accepted call ended
    returned,             \* handler invocations that returned since the last reset
    rejected              \* a run/step call has thrown "already running" since
                          \* the last accepted call ended

loopVars == <<queue_, running_, paused_, stopped_, events_processed_,
              current_timestamp_, mutex_>>
threadVars == <<pc, event, i, n>>
histVars == <<handled, pushed, call, last, returned, rejected>>
clockVars == <<global_clock_, on_tick_>>
dataVars == <<wal, feed, visit, calc>>
vars == <<queue_, running_, paused_, stopped_, events_processed_,
          current_timestamp_, mutex_, pc, event, i, n, eng, trade,
          global_clock_, on_tick_, wal, feed, visit, calc,
          handled, pushed, call, last, returned, rejected>>

\* ------------------------------------------------------------- event queue
\* EventComparator::operator(): true when a orders after b (a has the later
\* timestamp); std::priority_queue keeps at top() an element no other element
\* is ordered before.
\* The comparison reversed (a max-heap: the latest timestamp at top()).
EventComparator_Flipped(a, b) == a.ts < b.ts
\* return a.timestamp_us > b.timestamp_us;
EventComparator(a, b) == a.ts > b.ts

\* The candidates for queue_.top(): the elements e such that no other element
\* y has comp(e, y). Among equal timestamps the heap's choice is unspecified.
Top(q) == {e \in q : \A y \in q : ~EventComparator(e, y)}

IdsOf(S) == {e.id : e \in S}
Range(s) == {s[k] : k \in 1..Len(s)}

\* ------------------------------------------------------ condition variable
Idle == <<"none", "idle">>
Waiting == <<"run", "waiting">>
Waiters(p) == {t \in Threads : p[t] = Waiting}
\* cv_.notify_one(): wakes one waiting thread, if there is one. A woken thread
\* re-acquires mutex_ and evaluates the wait predicate again (<<"run", "wait">>).
NotifyOne(p) ==
    IF Waiters(p) = {} THEN {p}
    ELSE {[p EXCEPT ![t] = <<"run", "wait">>] : t \in Waiters(p)}
\* cv_.notify_all()
NotifyAll(p) == [t \in Threads |-> IF p[t] = Waiting THEN <<"run", "wait">> ELSE p[t]]

\* ------------------------------------------------------- history records
\* call describes the accepted run/step call in progress:
\*   n            the count given to step (0 for run)
\*   q0, h0, p0   queue_, Len(handled) and pushed when the call was accepted
\*   sinceStop    -1: no stop() since the call was accepted; otherwise the
\*                number of handler invocations started since the first one
\*   why          why the loop was left: "stopped", "empty", "count"
\*   afterStop    the previous accepted call was ended by stop()
NoCall == [kind |-> "none", n |-> 0, q0 |-> {}, h0 |-> 0, p0 |-> 0, sinceStop |-> -1,
           why |-> "none",
           afterStop |-> FALSE]

\* The record written when a call of kind k is accepted.
Accepted(k, cnt) ==
    [NoCall EXCEPT !.kind = k, !.n = cnt, !.q0 = queue_, !.h0 = Len(handled),
                   !.p0 = pushed, !.afterStop = (last = "stopped")]
\* The handler is entered with an event.
HandlerStarts ==
    [call EXCEPT !.sinceStop = IF @ \in {0, 1} THEN @ + 1 ELSE @]

\* ===================================================================== CTrade
\* hqt::CTrade, the trade/account ledger (cpp/src/trading/trade.cpp). The
\* variable trade holds its members. Money is in the fixed-point units of
\* AccountInfo and PositionInfo (1e-6 of the account currency), prices are in
\* points of the symbol (1e-5), volumes in lots. The ledger is the one built by
\* CTrade(0.003, "USD", 4) with one symbol registered, of 5 digits, contract
\* size 397, lots 1..2 and a first quote of 1 point. The fields issued,
\* restored, failed, calls and trailed are history: the tickets issued so far,
\* whether RestoreSnapshot was called, whether the last call was a command that
\* returned false, the number of calls made, and whether UpdateTrailingStops
\* has run since the last price update.
MaxPrice == 2       \* ticks carry bid and ask in 1..MaxPrice
MaxCalls == 3       \* calls of the ledger over a behaviour

FirstTicket == 1000
NoTicket == 0
Leverage == 4
ContractSize == 397
\* The value of one point of one lot: ContractSize * point * 1'000'000.
PointValue == 10 * ContractSize
InitialBalance == 3000
InitialQuote == 1
LotsMin == 1
LotsMax == 2
Symbols == {"EURUSD"}
Prices == 1..MaxPrice
OrderTypes == {"BUY_LIMIT", "SELL_STOP"}
NoSnapshot == [taken |-> FALSE]

\* The double margin_level_ as a fraction; 0.0 and INFINITY
ZeroLevel == [num |-> 0, den |-> 1]
InfiniteLevel == [num |-> 1, den |-> 0]

InitTrade ==
    [account_ |-> [balance_ |-> InitialBalance, equity_ |-> InitialBalance,
                   margin_ |-> 0, profit_ |-> 0,
                   margin_free_ |-> InitialBalance, margin_level_ |-> ZeroLevel],
     positions_ |-> {}, orders_ |-> {}, deals_ |-> <<>>, history_orders_ |-> <<>>,
     next_ticket_ |-> FirstTicket,
     bid |-> [s \in Symbols |-> InitialQuote],
     ask |-> [s \in Symbols |-> InitialQuote],
     current_time_us_ |-> 0,
     retcode |-> "NONE",
     snap |-> NoSnapshot,
     issued |-> <<>>, restored |-> FALSE, failed |-> FALSE, calls |-> 0,
     trailed |-> FALSE]

\* ================================================================ GlobalClock
\* hqt::GlobalClock (cpp/include/hqt/core/global_clock.hpp). The variable
\* global_clock_ holds its members: symbol_timestamps_ is a function from the
\* tracked symbol ids to their timestamps. The field after_reset is history:
\* the initial_time of reset when reset was the last call that wrote the clock,
\* NoReset otherwise. The variable on_tick_ records what the last invocation of
\* the host's tick callback was given and what it could read from the clock
\* and the ledger at that moment.
MaxSymbolId == 3    \* symbol ids are 1..MaxSymbolId
MaxClockTs == 3     \* timestamps given to the clock are 0..MaxClockTs

SymbolIds == 1..MaxSymbolId
ClockTimes == 0..MaxClockTs
NoReset == -1
\* SymbolInfo::SymbolId of the registered symbols.
SymbolId == [s \in Symbols |-> 1]

InitClock ==
    [symbol_timestamps_ |-> [x \in {} |-> 0], global_time_ |-> 0,
     after_reset |-> NoReset]

InitOnTick == [called |-> FALSE]

\* ---- WriteAheadLog: the instance modelled.  One log file; entries of two
\* ---- types with an empty or a one-byte payload.
POSITION_OPEN == 1
CHECKPOINT == 7
EntryTypes == {POSITION_OPEN, CHECKPOINT}
Payloads == {<<>>, <<9>>}
SIZE == 13                 \* WALEntryHeader::SIZE, the header bytes written and read
MaxWalCalls == 5
NoMark == -1
NoResult == [kind |-> "none", entries |-> <<>>]

\* The members after construction; no file exists yet.  disk is the content
\* of the file, one element per entry written; file_open is file_.is_open();
\* failed says that read_all left through an exception.  expected, marked and
\* truncated are history: the entries the calls so far have logged (those of
\* mark_checkpoint included), the number of entries logged before the most
\* recent mark_checkpoint, and whether truncate_to_checkpoint was called with
\* a checkpoint marked since the file was created.
InitWal ==
    [is_open_ |-> FALSE, file_open |-> FALSE, entry_count_ |-> 0,
     bytes_written_ |-> 0, last_checkpoint_pos_ |-> -1,
     disk |-> <<>>, failed |-> FALSE,
     expected |-> <<>>, marked |-> NoMark, truncated |-> FALSE,
     op |-> "none", result |-> NoResult, calls |-> 0]

\* ---- BarDataFeed: the instance modelled.  One (symbol, timeframe) key; a
\* ---- bar is its timestamp.
MaxBars == 3
MaxBarTs == 2
BarTimes == 0..MaxBarTs
Bars == [timestamp_us : BarTimes]
Series == UNION {[1..len -> Bars] : len \in 0..MaxBars}
Counts == 0..(MaxBars + 1)
NoBars == [kind |-> "none", bars |-> <<>>]

\* BarDataFeed() = default: nothing loaded, no query made yet
InitFeed ==
    [loaded |-> FALSE, bars |-> <<>>,
     op |-> "none", timestamp_us |-> 0, max_bars |-> 0, result |-> NoBars]

\* ---- Visits of positions_ (std::unordered_map): the instance modelled
MaxVisitCalls == 4
MaxVisitPositions == 2
VisitTickets == FirstTicket..(FirstTicket + MaxVisitPositions - 1)
\* Every order in which a visit of the map can meet tickets
VisitOrders ==
    {order \in UNION {[1..len -> VisitTickets] : len \in 0..MaxVisitPositions} :
        \A j \in DOMAIN order, k \in DOMAIN order : j # k => order[j] # order[k]}

\* No visit made yet.  order is what the last GetPositions() returned (as
\* tickets), ticket the position the last symbol-addressed command chose and
\* lowest the lowest ticket open on that symbol when it was called.
InitVisit == [op |-> "none", order |-> <<>>, ticket |-> 0, lowest |-> 0]

\* ---- the MarginCalculator instance: positions of one lot opened at one point
\* on the ledger's symbol, in the account currency, each with the profit of a
\* move of one point against it, of no move, or of one point in its favour;
\* the account's equity after a loss of one lot-point, untouched, and after a
\* gain of one lot-point.
MaxCalcPositions == 3
CalcProfits == {-PointValue, 0, PointValue}
CalcPositions ==
    UNION {[1..len -> [volume : {LotsMin}, price_open : {InitialQuote}, profit_ : CalcProfits]] :
              len \in 0..MaxCalcPositions}
CalcEquities == {InitialBalance - PointValue, InitialBalance, InitialBalance + PointValue}
\* The default stop_out_level of should_stop_out, in percent
DefaultStopOutLevel == 20
\* find_largest_loser's "none"
NoLoser == -1
InitCalc == [op |-> "none", equity |-> InitialBalance, positions |-> <<>>,
             required |-> FALSE, worst_idx |-> NoLoser]

InitLoop ==
    /\ queue_ = {}
    /\ running_ = FALSE /\ paused_ = FALSE /\ stopped_ = FALSE
    /\ events_processed_ = 0 /\ current_timestamp_ = 0
    /\ mutex_ = NoThread
    /\ pc = [t \in Threads |-> Idle]
    /\ event = [t \in Threads |-> NoEvent]
    /\ i = [t \in Threads |-> 0]
    /\ n = [t \in Threads |-> 0]
    /\ handled = <<>>
    /\ returned = 0
    /\ pushed = 0
    /\ call = NoCall
    /\ last = "none"
    /\ rejected = FALSE

InitEngine ==
    eng = [running_ |-> FALSE, paused_ |-> FALSE, current_time_us_ |-> 0,
           pc |-> "idle", tick_count |-> 0]

Init ==
    /\ InitLoop /\ InitEngine /\ trade = InitTrade
    /\ global_clock_ = InitClock /\ on_tick_ = InitOnTick
    /\ wal = InitWal /\ feed = InitFeed /\ visit = InitVisit /\ calc = InitCalc


\* ------------------------------------------------------------ EventLoop
\* pc[t] = <<k, label>>: thread t is at `label` of EventLoop::run (k = "run")
\* or of EventLoop::step (k = "step"); the two functions share the code of
\* the labels reset, dequeue, in_handler and exit. A step of the model is one
\* access to shared state that another thread can affect: a store that no
\* code path reads (events_processed_, current_timestamp_) is taken together
\* with the access before it.
At(t, k, label) == pc[t] = <<k, label>>
Goto(t, k, label) == pc' = [pc EXCEPT ![t] = <<k, label>>]
Kinds == {"run", "step"}

\* push(event): lock_guard; queue_.push; cv_.notify_one. The whole body is
\* one critical section of mutex_.
Push(ts) ==
    /\ pushed < MaxEvents
    /\ mutex_ = NoThread
    /\ queue_' = queue_ \cup {[id |-> pushed + 1, ts |-> ts]}
    /\ pushed' = pushed + 1
    /\ pc' \in NotifyOne(pc)
    /\ UNCHANGED call
    /\ UNCHANGED <<running_, paused_, stopped_, events_processed_, current_timestamp_,
                   mutex_, event, i, n, eng, trade, clockVars, dataVars, handled, returned, last, rejected>>

\* push_batch(events): lock_guard; queue_.push for each; one cv_.notify_one.
PushBatch(ts1, ts2) ==
    /\ pushed + 2 <= MaxEvents
    /\ mutex_ = NoThread
    /\ queue_' = queue_ \cup {[id |-> pushed + 1, ts |-> ts1],
                              [id |-> pushed + 2, ts |-> ts2]}
    /\ pushed' = pushed + 2
    /\ pc' \in NotifyOne(pc)
    /\ UNCHANGED call
    /\ UNCHANGED <<running_, paused_, stopped_, events_processed_, current_timestamp_,
                   mutex_, event, i, n, eng, trade, clockVars, dataVars, handled, returned, last, rejected>>

\* Threads are interchangeable and the locals of a call die with it, so the
\* thread that makes a call is taken to be the lowest-numbered thread that is
\* not inside run or step.
Caller(t) == pc[t] = Idle /\ \A u \in Threads : u < t => pc[u] # Idle

\* The entry of run/step without the test of running_: the call proceeds
\* whatever running_ was.
Enter_Unchecked(t, k, cnt) ==
    /\ Caller(t)
    /\ running_' = TRUE
    /\ Goto(t, k, "reset")
    /\ n' = [n EXCEPT ![t] = cnt]
    /\ call' = Accepted(k, cnt)
    /\ last' = "none"
    /\ UNCHANGED <<queue_, paused_, stopped_, events_processed_, current_timestamp_,
                   mutex_, event, i, handled, returned, pushed, rejected>>

\* The first statement of run and of step:
\* if (running_.exchange(true)) throw std::runtime_error("EventLoop is already running");
Enter(t, k, cnt) ==
    /\ Caller(t)
    /\ IF running_
       THEN /\ rejected' = TRUE
            /\ UNCHANGED <<running_, pc, n, call, last>>
       ELSE /\ running_' = TRUE
            /\ Goto(t, k, "reset")
            /\ n' = [n EXCEPT ![t] = cnt]
            /\ call' = Accepted(k, cnt)
            /\ last' = "none"
            /\ UNCHANGED rejected
    /\ UNCHANGED <<queue_, paused_, stopped_, events_processed_, current_timestamp_,
                   mutex_, event, i, handled, returned, pushed>>

RunEnter(t) == Enter(t, "run", 0) /\ UNCHANGED <<eng, trade, clockVars, dataVars>>
StepEnter(t, cnt) == Enter(t, "step", cnt) /\ UNCHANGED <<eng, trade, clockVars, dataVars>>

\* stopped_ = false; events_processed_ = 0;   (step: then the loop's i = 0)
Reset(t, k) ==
    /\ At(t, k, "reset")
    /\ stopped_' = FALSE
    /\ events_processed_' = 0
    /\ returned' = 0
    /\ i' = [i EXCEPT ![t] = 0]
    /\ Goto(t, k, IF k = "run" THEN "wait" ELSE "check_stop")
    /\ UNCHANGED <<queue_, running_, paused_, current_timestamp_,
                   mutex_, event, n, eng, trade, clockVars, dataVars, handled, pushed, call, last, rejected>>

\* run: unique_lock lock(mutex_); cv_.wait(lock, pred) begins by evaluating
\* pred = !paused_ || stopped_. This step takes the lock and reads paused_;
\* when pred holds the lock is released at the end of the block.
RunWaitPaused(t) ==
    /\ At(t, "run", "wait")
    /\ mutex_ = NoThread
    /\ IF ~paused_
       THEN Goto(t, "run", "check_stop") /\ UNCHANGED mutex_
       ELSE Goto(t, "run", "wait_stopped") /\ mutex_' = t
    /\ UNCHANGED <<queue_, running_, paused_, stopped_, events_processed_,
                   current_timestamp_, event, i, n, eng, trade, clockVars, dataVars, histVars>>

\* pred's second operand: reads stopped_ (paused_ was true), mutex_ held.
RunWaitStopped(t) ==
    /\ At(t, "run", "wait_stopped")
    /\ IF stopped_
       THEN Goto(t, "run", "check_stop") /\ mutex_' = NoThread
       ELSE Goto(t, "run", "wait_block") /\ UNCHANGED mutex_
    /\ UNCHANGED <<queue_, running_, paused_, stopped_, events_processed_,
                   current_timestamp_, event, i, n, eng, trade, clockVars, dataVars, histVars>>

\* pred was false: cv_.wait(lock) releases mutex_ and blocks, atomically.
RunWaitBlock(t) ==
    /\ At(t, "run", "wait_block")
    /\ Goto(t, "run", "waiting")
    /\ mutex_' = NoThread
    /\ UNCHANGED <<queue_, running_, paused_, stopped_, events_processed_,
                   current_timestamp_, event, i, n, eng, trade, clockVars, dataVars, histVars>>

\* std::condition_variable::wait may return without a notification.
SpuriousWakeup(t) ==
    /\ At(t, "run", "waiting")
    /\ Goto(t, "run", "wait")
    /\ UNCHANGED <<loopVars, event, i, n, eng, trade, clockVars, dataVars, histVars>>

\* run: if (stopped_) break;
RunCheckStop(t) ==
    /\ At(t, "run", "check_stop")
    /\ IF stopped_
       THEN Goto(t, "run", "exit") /\ call' = [call EXCEPT !.why = "stopped"]
       ELSE Goto(t, "run", "dequeue") /\ UNCHANGED call
    /\ UNCHANGED <<loopVars, event, i, n, eng, trade, clockVars, dataVars, handled, returned, pushed, last, rejected>>

\* The loop test of step with <= for <.
StepCheckStop_OffByOne(t) ==
    /\ At(t, "step", "check_stop")
    /\ IF ~(i[t] <= n[t])
       THEN Goto(t, "step", "exit") /\ call' = [call EXCEPT !.why = "count"]
       ELSE IF stopped_
            THEN Goto(t, "step", "exit") /\ call' = [call EXCEPT !.why = "stopped"]
            ELSE Goto(t, "step", "dequeue") /\ UNCHANGED call
    /\ UNCHANGED <<loopVars, event, i, n, eng, trade, clockVars, dataVars, handled, returned, pushed, last, rejected>>

\* step: for (...; i < n; ...) { if (stopped_) break;
StepCheckStop(t) ==
    /\ At(t, "step", "check_stop")
    /\ IF ~(i[t] < n[t])
       THEN Goto(t, "step", "exit") /\ call' = [call EXCEPT !.why = "count"]
       ELSE IF stopped_
            THEN Goto(t, "step", "exit") /\ call' = [call EXCEPT !.why = "stopped"]
            ELSE Goto(t, "step", "dequeue") /\ UNCHANGED call
    /\ UNCHANGED <<loopVars, event, i, n, eng, trade, clockVars, dataVars, handled, returned, pushed, last, rejected>>

\* The dequeue with the stop test after the pop instead of before the
\* dequeue: an event popped when stopped_ is set is not handed to the handler.
Dequeue_DropOnStop(t, k) ==
    /\ At(t, k, "dequeue")
    /\ mutex_ = NoThread
    /\ IF queue_ = {}
       THEN /\ Goto(t, k, "exit")
            /\ call' = [call EXCEPT !.why = "empty"]
            /\ UNCHANGED <<queue_, event, current_timestamp_, handled>>
       ELSE \E e \in Top(queue_) :
            /\ queue_' = queue_ \ {e}
            /\ event' = [event EXCEPT ![t] = e]
            /\ IF stopped_
               THEN /\ Goto(t, k, "exit")
                    /\ call' = [call EXCEPT !.why = "stopped"]
                    /\ UNCHANGED <<current_timestamp_, handled>>
               ELSE /\ current_timestamp_' = e.ts
                    /\ handled' = Append(handled, e)
                    /\ call' = HandlerStarts
                    /\ Goto(t, k, "in_handler")
    /\ UNCHANGED <<running_, paused_, stopped_, events_processed_,
                   mutex_, i, n, eng, trade, clockVars, dataVars, pushed, last, returned, rejected>>

\* { lock_guard lock(mutex_); if (queue_.empty()) break;
\*   event = queue_.top(); queue_.pop(); }
\* current_timestamp_ = event.timestamp_us; and handler(event) is entered.
Dequeue(t, k) ==
    /\ At(t, k, "dequeue")
    /\ mutex_ = NoThread
    /\ IF queue_ = {}
       THEN /\ Goto(t, k, "exit")
            /\ call' = [call EXCEPT !.why = "empty"]
            /\ UNCHANGED <<queue_, event, current_timestamp_, handled>>
       ELSE \E e \in Top(queue_) :
            /\ queue_' = queue_ \ {e}
            /\ event' = [event EXCEPT ![t] = e]
            /\ current_timestamp_' = e.ts
            /\ handled' = Append(handled, e)
            /\ call' = HandlerStarts
            /\ Goto(t, k, "in_handler")
    /\ UNCHANGED <<running_, paused_, stopped_, events_processed_,
                   mutex_, i, n, eng, trade, clockVars, dataVars, pushed, last, returned, rejected>>

\* After handler(event) has returned: ++events_processed_; and the next
\* iteration (step: ++i).
AfterReturn(t, k) ==
    /\ events_processed_' = events_processed_ + 1
    /\ returned' = returned + 1
    /\ i' = [i EXCEPT ![t] = IF k = "step" THEN @ + 1 ELSE @]
    /\ Goto(t, k, IF k = "run" THEN "wait" ELSE "check_stop")
    /\ UNCHANGED <<queue_, running_, paused_, stopped_, current_timestamp_,
                   mutex_, event, n, handled, pushed, call, last, rejected>>

\* The call is left (by return or by exception): its locals die.
Leave(t, how) ==
    /\ pc' = [pc EXCEPT ![t] = Idle]
    /\ event' = [event EXCEPT ![t] = NoEvent]
    /\ i' = [i EXCEPT ![t] = 0]
    /\ n' = [n EXCEPT ![t] = 0]
    /\ last' = how
    /\ call' = NoCall
    /\ rejected' = FALSE

\* The catch clause counting the invocation that threw.
AfterThrow_Counted(t, k) ==
    /\ running_' = FALSE
    /\ events_processed_' = events_processed_ + 1
    /\ Leave(t, "exception")
    /\ UNCHANGED <<queue_, paused_, stopped_, current_timestamp_,
                   mutex_, handled, returned, pushed>>

\* catch (const std::exception&) { running_ = false; throw; }
AfterThrow(t, k) ==
    /\ running_' = FALSE
    /\ Leave(t, "exception")
    /\ UNCHANGED <<queue_, paused_, stopped_, events_processed_, current_timestamp_,
                   mutex_, handled, returned, pushed>>

\* An exception that is not a std::exception: the catch clause does not match,
\* the exception leaves run/step and running_ keeps its value.
AfterThrowOther(t, k) ==
    /\ Leave(t, "exception")
    /\ UNCHANGED <<loopVars, handled, returned, pushed>>

\* handler(event) returns.
HandlerReturns(t, k) ==
    /\ At(t, k, "in_handler")
    /\ AfterReturn(t, k)
    /\ UNCHANGED <<eng, trade, clockVars, dataVars>>

\* handler(event) throws a std::exception.
HandlerThrows(t, k) ==
    /\ At(t, k, "in_handler")
    /\ AfterThrow(t, k)
    /\ UNCHANGED <<eng, trade, clockVars, dataVars>>

\* handler(event) throws something else.
HandlerThrowsOther(t, k) ==
    /\ At(t, k, "in_handler")
    /\ AfterThrowOther(t, k)
    /\ UNCHANGED <<eng, trade, clockVars, dataVars>>

\* After the loop: running_ = false; and the call returns.
Exit(t, k) ==
    /\ At(t, k, "exit")
    /\ running_' = FALSE
    /\ Leave(t, IF call.why = "stopped" THEN "stopped" ELSE "returned")
    /\ UNCHANGED <<queue_, paused_, stopped_, events_processed_, current_timestamp_,
                   mutex_, eng, trade, clockVars, dataVars, handled, returned, pushed>>

\* pause(): paused_ = true.
Pause ==
    /\ paused_' = TRUE
    /\ UNCHANGED call
    /\ UNCHANGED <<queue_, running_, stopped_, events_processed_, current_timestamp_,
                   mutex_, threadVars, eng, trade, clockVars, dataVars, handled, returned, pushed, last, rejected>>

\* resume(): paused_ = false; cv_.notify_one(). Neither statement takes
\* mutex_. A thread that starts to wait between the two statements is woken
\* by the notification, which is this step taken after RunWaitBlock; a
\* notification that comes late is a SpuriousWakeup.
Resume ==
    /\ paused_' = FALSE
    /\ pc' \in NotifyOne(pc)
    /\ UNCHANGED call
    /\ UNCHANGED <<queue_, running_, stopped_, events_processed_, current_timestamp_,
                   mutex_, event, i, n, eng, trade, clockVars, dataVars, handled, returned, pushed, last, rejected>>

\* stop(): stopped_ = true; cv_.notify_all(). mutex_ is not taken.
Stop ==
    /\ stopped_' = TRUE
    /\ pc' = NotifyAll(pc)
    /\ call' = IF call.kind # "none"
               THEN [call EXCEPT !.sinceStop = IF @ = -1 THEN 0 ELSE @]
               ELSE call
    /\ UNCHANGED <<queue_, running_, paused_, events_processed_, current_timestamp_,
                   mutex_, event, i, n, eng, trade, clockVars, dataVars, handled, returned, pushed, last, rejected>>

Next ==
    \/ \E ts \in Timestamps : Push(ts)
    \/ \E ts1, ts2 \in Timestamps : PushBatch(ts1, ts2)
    \/ \E t \in Threads : RunEnter(t)
    \/ \E t \in Threads, cnt \in 0..MaxStepN : StepEnter(t, cnt)
    \/ \E t \in Threads, k \in Kinds : Reset(t, k)
    \/ \E t \in Threads : RunWaitPaused(t)
    \/ \E t \in Threads : RunWaitStopped(t)
    \/ \E t \in Threads : RunWaitBlock(t)
    \/ \E t \in Threads : SpuriousWakeup(t)
    \/ \E t \in Threads : RunCheckStop(t)
    \/ \E t \in Threads : StepCheckStop(t)
    \/ \E t \in Threads, k \in Kinds : Dequeue(t, k)
    \/ \E t \in Threads, k \in Kinds : HandlerReturns(t, k)
    \/ \E t \in Threads, k \in Kinds : HandlerThrows(t, k)
    \/ \E t \in Threads, k \in Kinds : HandlerThrowsOther(t, k)
    \/ \E t \in Threads, k \in Kinds : Exit(t, k)
    \/ Pause
    \/ Resume
    \/ Stop

Spec == Init /\ [][Next]_vars

\* clear(): lock_guard; swap queue_ with an empty queue; events_processed_ = 0;
\* current_timestamp_ = 0. "Should only be called when loop is not running.
\* Not thread-safe with run()": it is called when no thread is inside run/step.
Clear ==
    /\ ~running_
    /\ \A t \in Threads : pc[t] = Idle
    /\ mutex_ = NoThread
    /\ queue_' = {}
    /\ events_processed_' = 0
    /\ current_timestamp_' = 0
    /\ returned' = 0
    /\ UNCHANGED <<running_, paused_, stopped_, mutex_, threadVars, eng, trade, clockVars, dataVars,
                   handled, pushed, call, last, rejected>>

NextClear == Next \/ Clear

\* The loop when pause(), resume() and stop() are never called: paused_ and
\* stopped_ stay false.
NextNoControl ==
    \/ \E ts \in Timestamps : Push(ts)
    \/ \E ts1, ts2 \in Timestamps : PushBatch(ts1, ts2)
    \/ \E t \in Threads : RunEnter(t)
    \/ \E t \in Threads, cnt \in 0..MaxStepN : StepEnter(t, cnt)
    \/ \E t \in Threads, k \in Kinds : Reset(t, k)
    \/ \E t \in Threads : RunWaitPaused(t)
    \/ \E t \in Threads : RunCheckStop(t)
    \/ \E t \in Threads : StepCheckStop(t)
    \/ \E t \in Threads, k \in Kinds : Dequeue(t, k)
    \/ \E t \in Threads, k \in Kinds : HandlerReturns(t, k)
    \/ \E t \in Threads, k \in Kinds : HandlerThrows(t, k)
    \/ \E t \in Threads, k \in Kinds : Exit(t, k)

SpecNoControl == Init /\ [][NextNoControl]_vars

\* The loop with clear() among its operations.
SpecClear == Init /\ [][NextClear]_vars

\* ==================================================================== Engine
\* hqt::Engine drives its event_loop_ from one thread, the simulator thread,
\* on which the host's callbacks also run. eng.pc is the Engine call in
\* progress and eng.tick_count the number of invocations of on_tick_. Every
\* event is a TICK of a registered symbol.
SimThread == 1
EngineIdle == eng.pc = "idle"

\* The host queues a tick: engine.event_loop().push(event).
EngineSchedule(ts) == EngineIdle /\ Push(ts)

\* Engine::run / Engine::run_steps up to the first statement of
\* event_loop_.run / event_loop_.step:
\* running_ = true; paused_ = false; event_loop_.run(lambda) / .step(steps, lambda).
\* The already-running error of the loop leaves the Engine call at once.
EngineEnter(k, cnt) ==
    /\ EngineIdle
    /\ Enter(SimThread, k, cnt)
    /\ eng' = [eng EXCEPT !.running_ = TRUE, !.paused_ = FALSE,
                          !.pc = IF running_ THEN "idle"
                                 ELSE IF k = "run" THEN "run" ELSE "run_steps"]
    /\ UNCHANGED <<trade, clockVars, dataVars>>
EngineRun == EngineEnter("run", 0)
EngineRunSteps(steps) == EngineEnter("step", steps)

\* The lambda given to the loop: if (!running_) return false;
\* if (paused_) return true; the event is not processed. The loop ignores the
\* value returned (EventHandler returns void).
LambdaSkips(k) ==
    /\ At(SimThread, k, "in_handler")
    /\ ~eng.running_ \/ eng.paused_
    /\ AfterReturn(SimThread, k)
    /\ UNCHANGED <<eng, trade, clockVars, dataVars>>

\* The lambda calls process_event(event): current_time_us_ = event.timestamp_us;
\* on_tick_(tick, symbol). The callback, cb, does nothing, calls
\* Engine::pause() (paused_ = true) or calls Engine::stop() (running_ = false).
ProcessEvent(k, cb) ==
    /\ At(SimThread, k, "in_handler")
    /\ eng.running_ /\ ~eng.paused_
    /\ eng' = [eng EXCEPT !.current_time_us_ = event[SimThread].ts,
                          !.tick_count = @ + 1,
                          !.paused_ = IF cb = "pause" THEN TRUE ELSE @,
                          !.running_ = IF cb = "stop" THEN FALSE ELSE @]
    /\ AfterReturn(SimThread, k)
    /\ UNCHANGED <<trade, clockVars, dataVars>>

\* on_tick_ throws a std::exception: process_event has no handler for it, the
\* loop's catch rethrows it and it leaves Engine::run / run_steps.
ProcessEventThrows(k) ==
    /\ At(SimThread, k, "in_handler")
    /\ eng.running_ /\ ~eng.paused_
    /\ eng' = [eng EXCEPT !.current_time_us_ = event[SimThread].ts,
                          !.tick_count = @ + 1,
                          !.pc = "idle"]
    /\ AfterThrow(SimThread, k)
    /\ UNCHANGED <<trade, clockVars, dataVars>>

\* event_loop_.run has returned: running_ = false; (run_steps: return processed;)
EngineReturn ==
    /\ ~EngineIdle
    /\ pc[SimThread] = Idle
    /\ eng' = [eng EXCEPT !.pc = "idle",
                          !.running_ = IF eng.pc = "run" THEN FALSE ELSE @]
    /\ UNCHANGED <<loopVars, threadVars, histVars, trade, clockVars, dataVars>>

\* Engine::pause(), resume() and stop() called by the host between two calls.
EnginePause ==
    /\ EngineIdle
    /\ eng' = [eng EXCEPT !.paused_ = TRUE]
    /\ UNCHANGED <<loopVars, threadVars, histVars, trade, clockVars, dataVars>>

EngineResume ==
    /\ EngineIdle
    /\ eng' = [eng EXCEPT !.paused_ = FALSE]
    /\ UNCHANGED <<loopVars, threadVars, histVars, trade, clockVars, dataVars>>

EngineStop ==
    /\ EngineIdle
    /\ eng' = [eng EXCEPT !.running_ = FALSE]
    /\ UNCHANGED <<loopVars, threadVars, histVars, trade, clockVars, dataVars>>

Callbacks == {"none", "pause", "stop"}

NextEngine ==
    \/ \E ts \in Timestamps : EngineSchedule(ts)
    \/ EngineRun
    \/ \E steps \in 0..MaxStepN : EngineRunSteps(steps)
    \/ \E k \in Kinds : Reset(SimThread, k)
    \/ RunWaitPaused(SimThread)
    \/ RunCheckStop(SimThread)
    \/ StepCheckStop(SimThread)
    \/ \E k \in Kinds : Dequeue(SimThread, k)
    \/ \E k \in Kinds : LambdaSkips(k)
    \/ \E k \in Kinds, cb \in Callbacks : ProcessEvent(k, cb)
    \/ \E k \in Kinds : ProcessEventThrows(k)
    \/ \E k \in Kinds : Exit(SimThread, k)
    \/ EngineReturn
    \/ EnginePause
    \/ EngineResume
    \/ EngineStop

SpecEngine == Init /\ [][NextEngine]_vars


\* ===================================================================== CTrade
\* The operations of hqt::CTrade on the variable trade.
\* static_cast<int64_t>(a / b) for b > 0: truncation toward zero.
TruncDiv(a, b) == IF a >= 0 THEN a \div b ELSE -((-a) \div b)

\* CTrade::CalculateMargin is volume * ContractSize * price / Leverage; the
\* callers store static_cast<int64_t>(margin * 1'000'000.0).
MarginNotional(volume, price) == volume * PointValue * price
MarginFp(volume, price) == TruncDiv(MarginNotional(volume, price), Leverage)

\* static_cast<int64_t>(x * 1'000'000.0) for the double x = p / 1'000'000.0
\* (PositionInfo::Profit), also after x was scaled by a volume ratio of 1/2:
\* the product falls below p for the values in LossyFixed, which lists all
\* such multiples of PointValue / 2 below 20000, and is truncated.
LossyFixed == {1985, 3970, 7940, 15880}
ToFixed(p) ==
    IF p \in LossyFixed THEN p - 1
    ELSE IF -p \in LossyFixed THEN p + 1
    ELSE p

\* PositionInfo::RecalculateProfit
RecalculateProfit(p) ==
    [p EXCEPT !.profit_ =
        (IF p.type = "BUY" THEN p.price_current - p.price_open
                           ELSE p.price_open - p.price_current)
        * p.volume * PointValue]

\* PositionInfo::UpdatePrice
PositionUpdatePrice(p, price) == RecalculateProfit([p EXCEPT !.price_current = price])

RECURSIVE SumProfit(_)
SumProfit(P) ==
    IF P = {} THEN 0
    ELSE LET p == CHOOSE x \in P : TRUE IN p.profit_ + SumProfit(P \ {p})

\* The total of CTrade::UpdateEquity: each position's Profit() converted back.
RECURSIVE SumProfitFixed(_)
SumProfitFixed(P) ==
    IF P = {} THEN 0
    ELSE LET p == CHOOSE x \in P : TRUE
         IN ToFixed(p.profit_) + SumProfitFixed(P \ {p})

RECURSIVE SumMargin(_)
SumMargin(P) ==
    IF P = {} THEN 0
    ELSE LET p == CHOOSE x \in P : TRUE
         IN MarginFp(p.volume, p.price_open) + SumMargin(P \ {p})

\* AccountInfo::UpdateEquity(total_unrealized_pnl)
AccountUpdateEquity(acc, total) ==
    LET equity == acc.balance_ + total
    IN [acc EXCEPT !.profit_ = total, !.equity_ = equity,
                   !.margin_level_ = IF acc.margin_ > 0
                                     THEN [num |-> equity * 100, den |-> acc.margin_]
                                     ELSE ZeroLevel,
                   !.margin_free_ = equity - acc.margin_]
\* AccountInfo::AddMargin / SubtractMargin
AddMargin(acc, amount) ==
    AccountUpdateEquity([acc EXCEPT !.margin_ = @ + amount], acc.profit_)
SubtractMargin(acc, amount) ==
    AccountUpdateEquity([acc EXCEPT !.margin_ = @ - amount], acc.profit_)
\* AccountInfo::ApplyRealizedPnL: balance_ += realized_pnl - commission + swap
\* (InternalPositionOpen sets the commission and swap of a position to 0, and
\* nothing changes them, so a deal's commission and swap are 0)
ApplyRealizedPnL(acc, realized_pnl) == [acc EXCEPT !.balance_ = @ + realized_pnl]

\* CTrade::UpdateEquity
UpdateEquity(tr) ==
    [tr EXCEPT !.account_ = AccountUpdateEquity(@, SumProfitFixed(tr.positions_))]

\* What CreateSnapshot copies and a failing command must leave alone.
Ledger(tr) ==
    [account_ |-> tr.account_, positions_ |-> tr.positions_, orders_ |-> tr.orders_,
     deals_ |-> tr.deals_, history_orders_ |-> tr.history_orders_,
     next_ticket_ |-> tr.next_ticket_]

HasPosition(tr, ticket) == \E p \in tr.positions_ : p.ticket = ticket
Position(tr, ticket) == CHOOSE p \in tr.positions_ : p.ticket = ticket
HasOrder(tr, ticket) == \E o \in tr.orders_ : o.ticket = ticket
Order(tr, ticket) == CHOOSE o \in tr.orders_ : o.ticket = ticket

\* A command returns false with last_result_.retcode = rc; a variant that
\* has drawn a ticket before it fails.
Fail_TicketDrawn(tr, rc) == [tr EXCEPT !.retcode = rc, !.next_ticket_ = @ + 1]
Fail(tr, rc) == [tr EXCEPT !.retcode = rc]

\* CTrade::CheckRequest: the retcode of the check ("DONE" when it passes).
CheckRequest(tr, action, symbol, type, volume, price) ==
    IF symbol \notin Symbols THEN "INVALID"
    ELSE IF volume <= 0 THEN "INVALID_VOLUME"
    ELSE IF volume < LotsMin \/ volume > LotsMax THEN "INVALID_VOLUME"
    ELSE LET p == IF price > 0 THEN price
                  ELSE IF type = "BUY" THEN tr.ask[symbol] ELSE tr.bid[symbol]
             \* margin_free = equity - (margin + required) < 0, in exact terms
             short == (tr.account_.equity_ - tr.account_.margin_) * Leverage
                      < MarginNotional(volume, p)
         IN IF action \in {"DEAL", "PENDING"} /\ short THEN "NO_MONEY" ELSE "DONE"

\* CTrade::InternalPositionOpen
InternalPositionOpen(tr, symbol, type, volume, price, sl, tp) ==
    LET pos == RecalculateProfit(
                   [ticket |-> tr.next_ticket_, symbol |-> symbol, type |-> type,
                    volume |-> volume, price_open |-> price, price_current |-> price,
                    sl |-> sl, tp |-> tp, profit_ |-> 0,
                    trailing_distance_ |-> 0, trailing_step_ |-> 0,
                    trailing_trigger_ |-> 0])
        t1 == [tr EXCEPT !.next_ticket_ = @ + 1,
                         !.issued = Append(@, tr.next_ticket_),
                         !.positions_ = @ \cup {pos},
                         !.account_ = AddMargin(@, MarginFp(volume, price))]
    IN UpdateEquity(t1)

\* CTrade::PositionOpen: CheckRequest, then ExecuteRequest (TRADE_ACTION_DEAL).
PositionOpen(tr, symbol, type, volume, price, sl, tp) ==
    LET rc == CheckRequest(tr, "DEAL", symbol, type, volume, price)
    IN IF rc # "DONE" THEN Fail(tr, rc)
       ELSE IF type \notin {"BUY", "SELL"} THEN Fail(tr, "INVALID")
       ELSE LET exec_price == IF type = "BUY" THEN tr.ask[symbol] ELSE tr.bid[symbol]
            IN [InternalPositionOpen(tr, symbol, type, volume, exec_price, sl, tp)
                   EXCEPT !.retcode = "DONE"]

\* CTrade::PositionModify(ticket, sl, tp)
PositionModify(tr, ticket, sl, tp) ==
    IF ~HasPosition(tr, ticket) THEN Fail(tr, "INVALID_ORDER")
    ELSE LET pos == Position(tr, ticket)
             new == [pos EXCEPT !.sl = IF sl > 0 THEN sl ELSE @,
                                !.tp = IF tp > 0 THEN tp ELSE @]
         IN [tr EXCEPT !.positions_ = (@ \ {pos}) \cup {new}, !.retcode = "DONE"]

\* The deal of InternalPositionClose taking the position's ticket instead of
\* drawing one from next_ticket_.
InternalPositionClose_ReusesTicket(tr, ticket, volume, price) ==
    LET pos == PositionUpdatePrice(Position(tr, ticket), price)
        close_volume == IF volume < pos.volume THEN volume ELSE pos.volume
        full_close == close_volume >= pos.volume
        realized == ToFixed(TruncDiv(pos.profit_ * close_volume, pos.volume))
        deal == [ticket |-> ticket, position_id |-> ticket, entry |-> "OUT",
                 type |-> IF pos.type = "BUY" THEN "SELL" ELSE "BUY",
                 volume |-> close_volume, price |-> price,
                 entry_price |-> pos.price_open, profit_ |-> realized]
        rest == RecalculateProfit([pos EXCEPT !.volume = @ - close_volume])
        released == IF full_close THEN MarginFp(pos.volume, pos.price_open)
                    ELSE TruncDiv(MarginNotional(pos.volume, pos.price_open)
                                  - MarginNotional(rest.volume, pos.price_open), Leverage)
        t1 == [tr EXCEPT
                 !.issued = Append(@, ticket),
                 !.deals_ = Append(@, deal),
                 !.positions_ = (@ \ {Position(tr, ticket)})
                                \cup (IF full_close THEN {} ELSE {rest}),
                 !.account_ = SubtractMargin(ApplyRealizedPnL(@, realized), released),
                 !.retcode = "DONE"]
    IN UpdateEquity(t1)

\* CTrade::InternalPositionClose, for a ticket in positions_.
InternalPositionClose(tr, ticket, volume, price) ==
    LET pos == PositionUpdatePrice(Position(tr, ticket), price)
        close_volume == IF volume < pos.volume THEN volume ELSE pos.volume
        full_close == close_volume >= pos.volume
        realized == ToFixed(TruncDiv(pos.profit_ * close_volume, pos.volume))
        deal == [ticket |-> tr.next_ticket_, position_id |-> ticket, entry |-> "OUT",
                 type |-> IF pos.type = "BUY" THEN "SELL" ELSE "BUY",
                 volume |-> close_volume, price |-> price,
                 entry_price |-> pos.price_open, profit_ |-> realized]
        rest == RecalculateProfit([pos EXCEPT !.volume = @ - close_volume])
        released == IF full_close THEN MarginFp(pos.volume, pos.price_open)
                    ELSE TruncDiv(MarginNotional(pos.volume, pos.price_open)
                                  - MarginNotional(rest.volume, pos.price_open), Leverage)
        t1 == [tr EXCEPT
                 !.next_ticket_ = @ + 1,
                 !.issued = Append(@, tr.next_ticket_),
                 !.deals_ = Append(@, deal),
                 !.positions_ = (@ \ {Position(tr, ticket)})
                                \cup (IF full_close THEN {} ELSE {rest}),
                 !.account_ = SubtractMargin(ApplyRealizedPnL(@, realized), released),
                 !.retcode = "DONE"]
    IN UpdateEquity(t1)

\* The close price of a position: BUY closes at bid, SELL at ask.
ClosePrice(tr, pos) == IF pos.type = "BUY" THEN tr.bid[pos.symbol] ELSE tr.ask[pos.symbol]

\* CTrade::PositionClose(ticket)
PositionClose(tr, ticket) ==
    IF ~HasPosition(tr, ticket) THEN Fail(tr, "POSITION_CLOSED")
    ELSE LET pos == Position(tr, ticket)
         IN InternalPositionClose(tr, ticket, pos.volume, ClosePrice(tr, pos))

\* CTrade::PositionClosePartial(ticket, volume)
PositionClosePartial(tr, ticket, volume) ==
    IF ~HasPosition(tr, ticket) THEN Fail(tr, "POSITION_CLOSED")
    ELSE LET pos == Position(tr, ticket)
         IN IF volume >= pos.volume THEN PositionClose(tr, ticket)
            ELSE InternalPositionClose(tr, ticket, volume, ClosePrice(tr, pos))

\* CTrade::PositionCloseBy(ticket, ticket_by)
PositionCloseBy(tr, ticket, ticket_by) ==
    IF ~HasPosition(tr, ticket) \/ ~HasPosition(tr, ticket_by)
    THEN Fail(tr, "INVALID_ORDER")
    ELSE LET pos1 == Position(tr, ticket)
             pos2 == Position(tr, ticket_by)
             volume == IF pos1.volume < pos2.volume THEN pos1.volume ELSE pos2.volume
             price == tr.bid[pos1.symbol]
         IN IF pos1.symbol # pos2.symbol THEN Fail(tr, "INVALID")
            ELSE IF pos1.type = pos2.type THEN Fail(tr, "INVALID")
            ELSE InternalPositionClose(
                     InternalPositionClose(tr, ticket, volume, price),
                     ticket_by, volume, price)

\* CTrade::InternalOrderPlace
InternalOrderPlace(tr, symbol, type, volume, price) ==
    LET order == [ticket |-> tr.next_ticket_, symbol |-> symbol, type |-> type,
                  state |-> "PLACED", volume |-> volume, price_open |-> price,
                  time_done |-> 0]
    IN [tr EXCEPT !.next_ticket_ = @ + 1,
                  !.issued = Append(@, tr.next_ticket_),
                  !.orders_ = @ \cup {order}]

\* CTrade::OrderOpen: CheckRequest, then ExecuteRequest (TRADE_ACTION_PENDING).
OrderOpen(tr, symbol, type, volume, price) ==
    LET rc == CheckRequest(tr, "PENDING", symbol, type, volume, price)
    IN IF rc # "DONE" THEN Fail(tr, rc)
       ELSE [InternalOrderPlace(tr, symbol, type, volume, price)
                EXCEPT !.retcode = "PLACED"]

\* CTrade::OrderModify(ticket, price, ...)
OrderModify(tr, ticket, price) ==
    IF ~HasOrder(tr, ticket) THEN Fail(tr, "INVALID_ORDER")
    ELSE LET order == Order(tr, ticket)
             new == [order EXCEPT !.price_open = IF price > 0 THEN price ELSE @]
         IN [tr EXCEPT !.orders_ = (@ \ {order}) \cup {new}, !.retcode = "DONE"]

\* OrderDelete without the change of state: the order goes to the history
\* as it is.
OrderDelete_KeepsState(tr, ticket) ==
    IF ~HasOrder(tr, ticket) THEN Fail(tr, "INVALID_ORDER")
    ELSE LET order == Order(tr, ticket)
         IN [tr EXCEPT !.history_orders_ = Append(@, order),
                       !.orders_ = @ \ {order},
                       !.retcode = "DONE"]

\* CTrade::OrderDelete(ticket)
OrderDelete(tr, ticket) ==
    IF ~HasOrder(tr, ticket) THEN Fail(tr, "INVALID_ORDER")
    ELSE LET order == Order(tr, ticket)
             done == [order EXCEPT !.state = "CANCELED",
                                   !.time_done = tr.current_time_us_]
         IN [tr EXCEPT !.history_orders_ = Append(@, done),
                       !.orders_ = @ \ {order},
                       !.retcode = "DONE"]

\* CTrade::UpdatePrices(symbol, bid, ask, timestamp) for a registered symbol.
UpdatePrices(tr, symbol, bid, ask, timestamp) ==
    LET t1 == [tr EXCEPT
                 !.bid[symbol] = bid, !.ask[symbol] = ask,
                 !.current_time_us_ = IF timestamp > 0 THEN timestamp ELSE @,
                 !.trailed = FALSE,
                 !.positions_ =
                     {IF p.symbol = symbol
                      THEN PositionUpdatePrice(p, IF p.type = "BUY" THEN bid ELSE ask)
                      ELSE p : p \in @}]
    IN UpdateEquity(t1)

\* Engine::process_event for a TICK of a registered symbol, as far as the
\* ledger goes: trade_.UpdatePrices(name, bid, ask, timestamp); the host
\* callback follows.
ProcessTick(tr, symbol, bid, ask) ==
    UpdatePrices(tr, symbol, bid, ask, tr.current_time_us_ + 1)

\* ------------------------------------------------------------ trailing stops
\* PositionInfo::SetStopLoss of a price of sl points:
\* static_cast<int64_t>(sl * 10^digits + 0.5), which rounds to the nearest
\* point and, below zero, one point toward zero.
SetStopLoss(sl) == IF sl >= 0 THEN sl ELSE sl + 1

\* CTrade::TrailingStopEnable(ticket, distance, step): false, and nothing
\* written, when the ticket is no open position.
TrailingStopEnable(tr, ticket, distance, step) ==
    IF ~HasPosition(tr, ticket) THEN tr
    ELSE LET pos == Position(tr, ticket)
             new == [pos EXCEPT !.trailing_distance_ = distance,
                                !.trailing_step_ = step,
                                !.trailing_trigger_ = pos.price_current]
         IN [tr EXCEPT !.positions_ = (@ \ {pos}) \cup {new}]

\* new_sl of UpdateTrailingStops: the current price less the distance for a
\* BUY, plus the distance for a SELL.
TrailCandidate(pos) ==
    IF pos.type = "BUY" THEN pos.price_current - pos.trailing_distance_
    ELSE pos.price_current + pos.trailing_distance_

\* UpdateTrailingStops moving the stop to the candidate whatever the stop is.
TrailPosition_AlwaysMoves(pos, tie) ==
    IF pos.trailing_distance_ = 0 THEN pos
    ELSE [pos EXCEPT !.sl = SetStopLoss(TrailCandidate(pos)),
                     !.trailing_trigger_ = pos.price_current]

\* The body of the loop of CTrade::UpdateTrailingStops for one position. The
\* code compares doubles: two operands that are equal in exact arithmetic
\* compare either way, depending on their rounding (tie: they compare as
\* "new_sl better than current_sl" and as "moved less than the step").
TrailPosition(pos, tie) ==
    IF pos.trailing_distance_ = 0 THEN pos
    ELSE LET new_sl == TrailCandidate(pos)
             gain == IF pos.type = "BUY" THEN new_sl - pos.sl ELSE pos.sl - new_sl
             better == pos.sl = 0 \/ gain > 0 \/ (gain = 0 /\ tie)
             moved == IF pos.sl > 0 THEN gain
                      ELSE IF pos.type = "BUY"
                           THEN pos.price_current - pos.trailing_trigger_
                           ELSE pos.trailing_trigger_ - pos.price_current
             skip == /\ pos.trailing_step_ > 0
                     /\ moved < pos.trailing_step_ \/ (moved = pos.trailing_step_ /\ tie)
         IN IF better /\ ~skip
            THEN [pos EXCEPT !.sl = SetStopLoss(new_sl),
                             !.trailing_trigger_ = pos.price_current]
            ELSE pos

\* CTrade::UpdateTrailingStops; ties are the tickets whose comparisons of
\* equal operands come out as described at TrailPosition.
UpdateTrailingStops(tr, ties) ==
    [tr EXCEPT !.positions_ = {TrailPosition(p, p.ticket \in ties) : p \in @},
               !.trailed = TRUE]

\* CTrade::CreateSnapshot: account, positions, orders, deals, history orders,
\* next ticket and the symbols with their quotes. The snapshot is kept by the
\* host; its field time is history, the ledger's time when it was taken.
CreateSnapshot(tr) ==
    [tr EXCEPT !.snap = [taken |-> TRUE, ledger |-> Ledger(tr),
                         bid |-> tr.bid, ask |-> tr.ask,
                         time |-> tr.current_time_us_]]

\* CTrade::RestoreSnapshot(snap)
RestoreSnapshot(tr) ==
    [tr EXCEPT !.account_ = tr.snap.ledger.account_,
               !.positions_ = tr.snap.ledger.positions_,
               !.orders_ = tr.snap.ledger.orders_,
               !.deals_ = tr.snap.ledger.deals_,
               !.history_orders_ = tr.snap.ledger.history_orders_,
               !.next_ticket_ = tr.snap.ledger.next_ticket_,
               !.bid = tr.snap.bid, !.ask = tr.snap.ask,
               !.restored = TRUE]

\* ================================================================ GlobalClock
\* The operations of hqt::GlobalClock on a value of the variable global_clock_.
\* std::numeric_limits<int64_t>::max(), the start of the minimum searches: the
\* largest integer of the checker, above every timestamp of the model.
Int64Max == 2147483647

Tracked(clock) == DOMAIN clock.symbol_timestamps_

\* The loop  for (const auto& [id, t] : symbol_timestamps_) if (id is in ids)
\* min_time = std::min(min_time, t);  started from min_time.
RECURSIVE MinTime(_, _, _)
MinTime(timestamps, ids, min_time) ==
    IF ids = {} THEN min_time
    ELSE LET id == CHOOSE x \in ids : TRUE
         IN MinTime(timestamps, ids \ {id},
                    IF timestamps[id] < min_time THEN timestamps[id] ELSE min_time)

\* recalculate_global_time_locked
recalculate_global_time_locked(clock) ==
    [clock EXCEPT !.global_time_ =
        IF Tracked(clock) = {} THEN 0
        ELSE MinTime(clock.symbol_timestamps_, Tracked(clock), Int64Max)]

\* update_symbol leaving a symbol it inserts at the default of operator[], 0.
update_symbol_InsertsDefault(clock, symbol_id, timestamp) ==
    recalculate_global_time_locked(
        [clock EXCEPT !.symbol_timestamps_ =
                          [x \in DOMAIN @ \cup {symbol_id} |->
                              IF x # symbol_id THEN @[x]
                              ELSE IF x \in DOMAIN @ THEN timestamp ELSE 0],
                      !.after_reset = NoReset])

\* update_symbol: symbol_timestamps_[symbol_id] = timestamp; recalculate.
update_symbol(clock, symbol_id, timestamp) ==
    recalculate_global_time_locked(
        [clock EXCEPT !.symbol_timestamps_ =
                          [x \in DOMAIN @ \cup {symbol_id} |->
                              IF x = symbol_id THEN timestamp ELSE @[x]],
                      !.after_reset = NoReset])

\* update_batch: every entry of updates is written, then one recalculation.
update_batch(clock, updates) ==
    recalculate_global_time_locked(
        [clock EXCEPT !.symbol_timestamps_ =
                          [x \in DOMAIN @ \cup DOMAIN updates |->
                              IF x \in DOMAIN updates THEN updates[x] ELSE @[x]],
                      !.after_reset = NoReset])

\* remove_symbol without the recalculation of the global time.
remove_symbol_KeepsTime(clock, symbol_id) ==
    [clock EXCEPT !.symbol_timestamps_ = [x \in DOMAIN @ \ {symbol_id} |-> @[x]],
                  !.after_reset = NoReset]

\* remove_symbol: symbol_timestamps_.erase(symbol_id); recalculate.
remove_symbol(clock, symbol_id) ==
    recalculate_global_time_locked(
        [clock EXCEPT !.symbol_timestamps_ = [x \in DOMAIN @ \ {symbol_id} |-> @[x]],
                      !.after_reset = NoReset])

\* clear: symbol_timestamps_.clear(); global_time_ = 0;
clear(clock) ==
    [symbol_timestamps_ |-> [x \in {} |-> 0], global_time_ |-> 0,
     after_reset |-> NoReset]

\* reset: symbol_timestamps_.clear(); global_time_ = initial_time;
reset(clock, initial_time) ==
    [symbol_timestamps_ |-> [x \in {} |-> 0], global_time_ |-> initial_time,
     after_reset |-> initial_time]

\* current_time
current_time(clock) == clock.global_time_

\* get_symbol_time: the timestamp of a tracked symbol, 0 for any other.
get_symbol_time(clock, symbol_id) ==
    IF symbol_id \in Tracked(clock) THEN clock.symbol_timestamps_[symbol_id] ELSE 0

\* can_advance: true when at most one symbol is tracked; otherwise the target
\* is compared with the minimum over the tracked symbols other than symbol_id.
can_advance(clock, symbol_id, target_timestamp) ==
    IF Cardinality(Tracked(clock)) <= 1 THEN TRUE
    ELSE target_timestamp <=
             MinTime(clock.symbol_timestamps_, Tracked(clock) \ {symbol_id}, Int64Max)

\* ---- the calls of the clock's owner
clockRest == <<loopVars, threadVars, histVars, eng, trade, on_tick_, dataVars>>

DoUpdateSymbol(symbol_id, timestamp) ==
    /\ global_clock_' = update_symbol(global_clock_, symbol_id, timestamp)
    /\ UNCHANGED clockRest

DoUpdateBatch(updates) ==
    /\ global_clock_' = update_batch(global_clock_, updates)
    /\ UNCHANGED clockRest

DoRemoveSymbol(symbol_id) ==
    /\ global_clock_' = remove_symbol(global_clock_, symbol_id)
    /\ UNCHANGED clockRest

DoClear ==
    /\ global_clock_' = clear(global_clock_)
    /\ UNCHANGED clockRest

DoReset(initial_time) ==
    /\ global_clock_' = reset(global_clock_, initial_time)
    /\ UNCHANGED clockRest

\* The maps an update_batch call may be given.
Batches == UNION {[ids -> ClockTimes] : ids \in SUBSET SymbolIds}

NextClock ==
    \/ \E id \in SymbolIds, t \in ClockTimes : DoUpdateSymbol(id, t)
    \/ \E updates \in Batches : DoUpdateBatch(updates)
    \/ \E id \in SymbolIds : DoRemoveSymbol(id)
    \/ DoClear
    \/ \E t \in ClockTimes : DoReset(t)

SpecClock == Init /\ [][NextClock]_vars

\* PITEnforcer::max_query_time and clamp_query_time
max_query_time(clock) == current_time(clock)
clamp_query_time(clock, query_time) ==
    IF query_time < current_time(clock) THEN query_time ELSE current_time(clock)

\* The clock fed by the ticks of an event stream consumed in ascending
\* timestamp order: each tick updates the entry of its symbol, and no tick is
\* earlier than one consumed before it (the latest entry of the map).
InOrder(clock, timestamp) ==
    \A id \in Tracked(clock) : clock.symbol_timestamps_[id] <= timestamp

NextAscending ==
    \E id \in SymbolIds, t \in ClockTimes :
        InOrder(global_clock_, t) /\ DoUpdateSymbol(id, t)

SpecAscending == Init /\ [][NextAscending]_vars

\* ---- the calls of the host
otherVars == <<loopVars, threadVars, histVars, eng, clockVars, dataVars>>

\* What a command (a call that returns bool) leaves behind when it took the
\* ledger to tr.
Returned(tr) ==
    [tr EXCEPT !.failed = tr.retcode \notin {"DONE", "PLACED"}, !.calls = @ + 1]
\* The same for a call that returns nothing.
Done(tr) == [tr EXCEPT !.failed = FALSE, !.calls = @ + 1]

\* Tickets a caller may name: any that can have been issued, and none.
Tickets == {NoTicket} \cup (FirstTicket..(FirstTicket + MaxCalls - 1))

DoPositionOpen(symbol, type, volume, price) ==
    /\ trade.calls < MaxCalls
    /\ trade' = Returned(PositionOpen(trade, symbol, type, volume, price, 0, 0))
    /\ UNCHANGED otherVars

DoPositionModify(ticket, sl, tp) ==
    /\ trade.calls < MaxCalls
    /\ trade' = Returned(PositionModify(trade, ticket, sl, tp))
    /\ UNCHANGED otherVars

DoPositionClose(ticket) ==
    /\ trade.calls < MaxCalls
    /\ trade' = Returned(PositionClose(trade, ticket))
    /\ UNCHANGED otherVars

DoPositionClosePartial(ticket, volume) ==
    /\ trade.calls < MaxCalls
    /\ trade' = Returned(PositionClosePartial(trade, ticket, volume))
    /\ UNCHANGED otherVars

DoPositionCloseBy(ticket, ticket_by) ==
    /\ trade.calls < MaxCalls
    /\ trade' = Returned(PositionCloseBy(trade, ticket, ticket_by))
    /\ UNCHANGED otherVars

DoOrderOpen(symbol, type, volume, price) ==
    /\ trade.calls < MaxCalls
    /\ trade' = Returned(OrderOpen(trade, symbol, type, volume, price))
    /\ UNCHANGED otherVars

DoOrderModify(ticket, price) ==
    /\ trade.calls < MaxCalls
    /\ trade' = Returned(OrderModify(trade, ticket, price))
    /\ UNCHANGED otherVars

DoOrderDelete(ticket) ==
    /\ trade.calls < MaxCalls
    /\ trade' = Returned(OrderDelete(trade, ticket))
    /\ UNCHANGED otherVars

\* Engine::process_event for a TICK of the feed (ask >= bid), in the order of
\* the code: trade_.UpdatePrices, then the on_tick_ callback, which can read
\* the ledger and the clock, then global_clock_ is given the tick's time.
EngineTick(symbol, bid, ask) ==
    /\ ask >= bid
    /\ trade' = Done(ProcessTick(trade, symbol, bid, ask))
    /\ on_tick_' = [called |-> TRUE,
                    timestamp_us |-> trade'.current_time_us_,
                    bid |-> bid, ask |-> ask,
                    ledger_bid |-> trade'.bid[symbol],
                    ledger_ask |-> trade'.ask[symbol],
                    ledger_time |-> trade'.current_time_us_,
                    symbol_time |-> get_symbol_time(global_clock_, SymbolId[symbol])]
    /\ global_clock_' = update_symbol(global_clock_, SymbolId[symbol],
                                      trade'.current_time_us_)
    /\ UNCHANGED <<loopVars, threadVars, histVars, eng, dataVars>>

DoTick(symbol, bid, ask) ==
    /\ trade.calls < MaxCalls
    /\ EngineTick(symbol, bid, ask)

DoCreateSnapshot ==
    /\ trade.calls < MaxCalls
    /\ trade' = Done(CreateSnapshot(trade))
    /\ UNCHANGED otherVars

DoRestoreSnapshot ==
    /\ trade.calls < MaxCalls
    /\ trade.snap.taken
    /\ trade' = Done(RestoreSnapshot(trade))
    /\ UNCHANGED otherVars

NextTrade ==
    \/ \E s \in Symbols \cup {"UNKNOWN"}, ty \in {"BUY", "SELL"},
          v \in 0..(LotsMax + 1), p \in {0} \cup Prices :
          DoPositionOpen(s, ty, v, p)
    \/ \E t \in Tickets, sl \in {0} \cup Prices, tp \in {0} \cup Prices :
          DoPositionModify(t, sl, tp)
    \/ \E t \in Tickets : DoPositionClose(t)
    \/ \E t \in Tickets, v \in 1..LotsMax : DoPositionClosePartial(t, v)
    \/ \E t1 \in Tickets, t2 \in Tickets : DoPositionCloseBy(t1, t2)
    \/ \E s \in Symbols \cup {"UNKNOWN"}, ty \in OrderTypes,
          v \in 0..(LotsMax + 1), p \in Prices :
          DoOrderOpen(s, ty, v, p)
    \/ \E t \in Tickets, p \in Prices : DoOrderModify(t, p)
    \/ \E t \in Tickets : DoOrderDelete(t)
    \/ \E s \in Symbols, b \in Prices, a \in Prices : DoTick(s, b, a)
    \/ DoCreateSnapshot
    \/ DoRestoreSnapshot

SpecTrade == Init /\ [][NextTrade]_vars

\* ---- the ledger with trailing stops: positions are opened, given a trailing
\* stop, and then see price updates and calls of UpdateTrailingStops.
MaxTrailCalls == 5      \* calls of the ledger over a behaviour
MaxTrailPositions == 1  \* positions opened over a behaviour
MaxDistance == 1        \* trailing distances are 1..MaxDistance points
MaxTrailStep == 1       \* trailing steps are 0..MaxTrailStep points

TrailTickets == FirstTicket..(FirstTicket + MaxTrailPositions - 1)

TrailOpen(symbol, type, sl) ==
    /\ trade.calls < MaxTrailCalls
    /\ trade.next_ticket_ < FirstTicket + MaxTrailPositions
    /\ trade' = Returned(PositionOpen(trade, symbol, type, LotsMin, 0, sl, 0))
    /\ UNCHANGED otherVars

TrailEnable(ticket, distance, step) ==
    /\ trade.calls < MaxTrailCalls
    /\ trade' = Done(TrailingStopEnable(trade, ticket, distance, step))
    /\ UNCHANGED otherVars

TrailTick(symbol, bid, ask) ==
    /\ trade.calls < MaxTrailCalls
    /\ EngineTick(symbol, bid, ask)

TrailUpdate(ties) ==
    /\ trade.calls < MaxTrailCalls
    /\ trade' = Done(UpdateTrailingStops(trade, ties))
    /\ UNCHANGED otherVars

NextTrail ==
    \/ \E s \in Symbols, ty \in {"BUY", "SELL"}, sl \in {0} \cup Prices :
          TrailOpen(s, ty, sl)
    \/ \E t \in TrailTickets, d \in 1..MaxDistance, st \in 0..MaxTrailStep :
          TrailEnable(t, d, st)
    \/ \E s \in Symbols, b \in Prices, a \in Prices : TrailTick(s, b, a)
    \/ \E ties \in SUBSET TrailTickets : TrailUpdate(ties)

SpecTrail == Init /\ [][NextTrail]_vars

\* ======================================================================
\* WriteAheadLog (write_ahead_log.hpp)
\* ======================================================================

\* calculate_crc32 on the payloads of the model, split into the low byte and
\* the upper three bytes (IEEE 802.3: 0xABDE5729 for {9}, 0xD202EF8D for {0},
\* 0 for no data).
calculate_crc32(data) ==
    CASE data = <<9>> -> [low |-> 41, high |-> 11263575]
      [] data = <<0>> -> [low |-> 141, high |-> 13763311]
      [] OTHER -> [low |-> 0, high |-> 0]

\* What the three bytes of header.crc32 that read_all never assigns can hold.
JunkValues == {0, 11263575, 13763311}
Junk == [1..MaxWalCalls -> JunkValues]

RECURSIVE FileSize(_)
FileSize(disk) ==
    IF disk = <<>> THEN 0
    ELSE SIZE + disk[1].header.length + FileSize(Tail(disk))

\* file_.tellp()
tellp(w) == IF w.file_open THEN FileSize(w.disk) ELSE -1

\* truncate(path, length): the entries that lie wholly below length
TruncateFile(disk, length) ==
    LET keep == {k \in 0..Len(disk) : FileSize(SubSeq(disk, 1, k)) <= length}
        whole == CHOOSE k \in keep : \A j \in keep : j <= k
    IN SubSeq(disk, 1, whole)

open(w, truncate) ==
    IF w.is_open_ THEN w
    ELSE LET disk == IF truncate THEN <<>> ELSE w.disk
         IN [w EXCEPT !.disk = disk, !.file_open = TRUE, !.failed = FALSE,
                      !.bytes_written_ = FileSize(disk),
                      !.is_open_ = TRUE, !.entry_count_ = 0,
                      !.last_checkpoint_pos_ = -1]

close(w) ==
    IF ~w.is_open_ THEN w
    ELSE [w EXCEPT !.file_open = FALSE, !.failed = FALSE, !.is_open_ = FALSE]

\* append with the log open.  The header goes out as the first SIZE bytes of
\* the 16-byte struct: magic, type, padding, length and the low byte of
\* crc32.  A write to a closed stream fails silently.
append(w, type, data) ==
    LET header == [type |-> type, length |-> Len(data),
                   crc32_low |-> calculate_crc32(data).low]
    IN [w EXCEPT !.disk = IF w.file_open
                          THEN Append(@, [header |-> header, data |-> data])
                          ELSE @,
                 !.entry_count_ = @ + 1,
                 !.bytes_written_ = @ + SIZE + Len(data)]

mark_checkpoint(w) ==
    IF ~w.is_open_ THEN w
    ELSE append([w EXCEPT !.last_checkpoint_pos_ = tellp(w)], CHECKPOINT, <<0>>)

\* read_all with the log open.  junk[k] is what the unassigned three bytes of
\* header.crc32 hold when entry k is read.
read_all(w, junk) ==
    LET crc32(k) == [low |-> w.disk[k].header.crc32_low, high |-> junk[k]]
        bad == {k \in 1..Len(w.disk) :
                   /\ w.disk[k].header.length > 0
                   /\ calculate_crc32(w.disk[k].data) # crc32(k)}
    IN IF ~w.file_open THEN [kind |-> "entries", entries |-> <<>>]
       ELSE IF bad # {} THEN [kind |-> "corrupted", entries |-> <<>>]
       ELSE [kind |-> "entries",
             entries |-> [k \in 1..Len(w.disk) |->
                             [type |-> w.disk[k].header.type,
                              data |-> w.disk[k].data]]]

read_uncommitted(w, junk) ==
    LET all == read_all(w, junk)
        marks == {k \in 1..Len(all.entries) : all.entries[k].type = CHECKPOINT}
        checkpoint_idx == IF marks = {} THEN 0
                          ELSE CHOOSE k \in marks : \A j \in marks : j <= k
    IN [all EXCEPT !.entries = SubSeq(@, checkpoint_idx + 1, Len(@))]

\* file_.close() leaves is_open_ set, so the open(false) at the end returns at once.
truncate_to_checkpoint(w) ==
    IF ~w.is_open_ \/ w.last_checkpoint_pos_ < 0 THEN w
    ELSE open([w EXCEPT !.file_open = FALSE,
                        !.disk = TruncateFile(@, w.last_checkpoint_pos_)],
              FALSE)

walRest == <<loopVars, threadVars, histVars, eng, trade, clockVars, feed, visit, calc>>

\* A handle is followed until read_all throws; after that only close().
WalUsable == wal.calls < MaxWalCalls /\ ~wal.failed

Called(w, op, result) ==
    [w EXCEPT !.op = op, !.result = result, !.calls = @ + 1]

NotOpen == [kind |-> "not_open", entries |-> <<>>]

DoWalOpen(truncate) ==
    /\ WalUsable
    /\ LET created == ~wal.is_open_ /\ truncate
           w == [open(wal, truncate) EXCEPT
                    !.expected = IF created THEN <<>> ELSE @,
                    !.marked = IF created THEN NoMark ELSE @,
                    !.truncated = IF created THEN FALSE ELSE @]
       IN wal' = Called(w, "open", NoResult)
    /\ UNCHANGED walRest

DoWalClose ==
    /\ wal.calls < MaxWalCalls
    /\ wal' = Called(close(wal), "close", NoResult)
    /\ UNCHANGED walRest

DoWalAppend(type, data) ==
    /\ WalUsable
    /\ wal' = IF ~wal.is_open_ THEN Called(wal, "append", NotOpen)
              ELSE Called([append(wal, type, data) EXCEPT
                              !.expected = Append(@, [type |-> type, data |-> data])],
                          "append", NoResult)
    /\ UNCHANGED walRest

DoWalMarkCheckpoint ==
    /\ WalUsable
    /\ wal' = IF ~wal.is_open_ THEN Called(wal, "mark_checkpoint", NoResult)
              ELSE Called([mark_checkpoint(wal) EXCEPT
                              !.marked = Len(wal.expected),
                              !.expected = Append(@, [type |-> CHECKPOINT, data |-> <<0>>])],
                          "mark_checkpoint", NoResult)
    /\ UNCHANGED walRest

DoWalReadAll(junk) ==
    /\ WalUsable
    /\ wal' = IF ~wal.is_open_ THEN Called(wal, "read_all", NotOpen)
              ELSE LET r == read_all(wal, junk)
                   IN Called([wal EXCEPT !.failed = (r.kind = "corrupted")],
                             "read_all", r)
    /\ UNCHANGED walRest

DoWalReadUncommitted(junk) ==
    /\ WalUsable
    /\ wal' = IF ~wal.is_open_ THEN Called(wal, "read_uncommitted", NotOpen)
              ELSE LET r == read_uncommitted(wal, junk)
                   IN Called([wal EXCEPT !.failed = (r.kind = "corrupted")],
                             "read_uncommitted", r)
    /\ UNCHANGED walRest

DoWalTruncate ==
    /\ WalUsable
    /\ LET cut == wal.is_open_ /\ wal.marked # NoMark
           w == [truncate_to_checkpoint(wal) EXCEPT
                    !.expected = IF cut THEN SubSeq(@, 1, wal.marked) ELSE @,
                    !.truncated = @ \/ cut]
       IN wal' = Called(w, "truncate_to_checkpoint", NoResult)
    /\ UNCHANGED walRest

NextWal ==
    \/ \E truncate \in BOOLEAN : DoWalOpen(truncate)
    \/ DoWalClose
    \/ \E type \in EntryTypes, data \in Payloads : DoWalAppend(type, data)
    \/ DoWalMarkCheckpoint
    \/ \E junk \in Junk : DoWalReadAll(junk)
    \/ \E junk \in Junk : DoWalReadUncommitted(junk)
    \/ DoWalTruncate

SpecWal == Init /\ [][NextWal]_vars

\* ======================================================================
\* BarDataFeed (data_feed.hpp)
\* ======================================================================

\* The loop of find_last_index; left, right and result are 0-based indices.
RECURSIVE BinarySearch(_, _, _, _, _)
BinarySearch(bars, timestamp_us, left, right, result) ==
    IF left > right THEN result
    ELSE LET mid == left + (right - left) \div 2
         IN IF bars[mid + 1].timestamp_us <= timestamp_us
            THEN BinarySearch(bars, timestamp_us, mid + 1, right, mid)
            ELSE BinarySearch(bars, timestamp_us, left, mid - 1, result)

find_last_index_LastBar(bars, timestamp_us) == Len(bars) - 1

find_last_index(bars, timestamp_us) ==
    IF bars = <<>> THEN -1
    ELSE BinarySearch(bars, timestamp_us, 0, Len(bars) - 1, -1)

DataFeedError == [kind |-> "error", bars |-> <<>>]

get_bars(f, timestamp_us, max_bars) ==
    IF ~f.loaded THEN DataFeedError
    ELSE LET last_idx == find_last_index(f.bars, timestamp_us)
             count == IF max_bars = 0 THEN last_idx + 1
                      ELSE IF max_bars < last_idx + 1 THEN max_bars
                      ELSE last_idx + 1
         IN IF last_idx < 0 THEN [kind |-> "bars", bars |-> <<>>]
            ELSE [kind |-> "bars",
                  bars |-> [k \in 1..count |-> f.bars[last_idx - (k - 1) + 1]]]

get_last_bar(f, timestamp_us) ==
    IF ~f.loaded THEN DataFeedError
    ELSE LET last_idx == find_last_index(f.bars, timestamp_us)
         IN IF last_idx < 0 THEN DataFeedError
            ELSE [kind |-> "bar", bars |-> <<f.bars[last_idx + 1]>>]

feedRest == <<loopVars, threadVars, histVars, eng, trade, clockVars, wal, visit, calc>>

LoadBars(bars) ==
    /\ feed' = [feed EXCEPT !.loaded = TRUE, !.bars = bars,
                            !.op = "load_bars", !.result = NoBars]
    /\ UNCHANGED feedRest

GetBars(timestamp_us, max_bars) ==
    /\ feed' = [feed EXCEPT !.op = "get_bars", !.timestamp_us = timestamp_us,
                            !.max_bars = max_bars,
                            !.result = get_bars(feed, timestamp_us, max_bars)]
    /\ UNCHANGED feedRest

GetLastBar(timestamp_us) ==
    /\ feed' = [feed EXCEPT !.op = "get_last_bar", !.timestamp_us = timestamp_us,
                            !.max_bars = 1,
                            !.result = get_last_bar(feed, timestamp_us)]
    /\ UNCHANGED feedRest

NextFeed ==
    \/ \E bars \in Series : LoadBars(bars)
    \/ \E ts \in BarTimes, max_bars \in Counts : GetBars(ts, max_bars)
    \/ \E ts \in BarTimes : GetLastBar(ts)

SpecFeed == Init /\ [][NextFeed]_vars

\* ======================================================================
\* Visits of positions_ (trade.cpp, trade.hpp)
\* ======================================================================

\* order is an order in which a range-for over positions_ can meet the
\* positions: the standard leaves the iteration order of std::unordered_map
\* unspecified.
IsIteration(tr, order) ==
    /\ Len(order) = Cardinality(tr.positions_)
    /\ \A p \in tr.positions_ : \E k \in DOMAIN order : order[k] = p.ticket

\* CTrade::GetPositions(): the positions as the visit meets them
GetPositions(tr, order) == [k \in DOMAIN order |-> Position(tr, order[k])]

\* The loop at the head of the symbol-addressed commands: the ticket of the
\* first position met whose symbol matches, 0 if there is none.
FindBySymbol(tr, symbol, order) ==
    LET hits == {k \in DOMAIN order : Position(tr, order[k]).symbol = symbol}
    IN IF hits = {} THEN 0
       ELSE order[CHOOSE k \in hits : \A j \in hits : k <= j]

LowestOn(tr, symbol) ==
    LET on == {p.ticket : p \in {q \in tr.positions_ : q.symbol = symbol}}
    IN IF on = {} THEN 0 ELSE CHOOSE t \in on : \A u \in on : t <= u

\* CTrade::PositionClose(symbol)
PositionCloseSymbol(tr, symbol, order) ==
    LET ticket == FindBySymbol(tr, symbol, order)
    IN IF ticket = 0 THEN Fail(tr, "INVALID_ORDER") ELSE PositionClose(tr, ticket)

\* CTrade::PositionClosePartial(symbol, volume)
PositionClosePartialSymbol(tr, symbol, volume, order) ==
    LET ticket == FindBySymbol(tr, symbol, order)
    IN IF ticket = 0 THEN Fail(tr, "INVALID_ORDER")
       ELSE PositionClosePartial(tr, ticket, volume)

\* CTrade::PositionModify(symbol, sl, tp)
PositionModifySymbol(tr, symbol, sl, tp, order) ==
    LET ticket == FindBySymbol(tr, symbol, order)
    IN IF ticket = 0 THEN Fail(tr, "INVALID_ORDER")
       ELSE PositionModify(tr, ticket, sl, tp)

visitRest == <<loopVars, threadVars, histVars, eng, clockVars, wal, feed, calc>>

Addressed(op, symbol, order) ==
    [op |-> op, order |-> <<>>, ticket |-> FindBySymbol(trade, symbol, order),
     lowest |-> LowestOn(trade, symbol)]

VisitOpen(symbol, type) ==
    /\ trade.calls < MaxVisitCalls
    /\ trade.next_ticket_ < FirstTicket + MaxVisitPositions
    /\ trade' = Returned(PositionOpen(trade, symbol, type, LotsMin, 0, 0, 0))
    /\ UNCHANGED <<visit, visitRest>>

VisitGetPositions(order) ==
    /\ trade.calls < MaxVisitCalls
    /\ IsIteration(trade, order)
    /\ visit' = [op |-> "GetPositions",
                 order |-> [k \in DOMAIN order |-> GetPositions(trade, order)[k].ticket],
                 ticket |-> 0, lowest |-> 0]
    /\ trade' = [trade EXCEPT !.calls = @ + 1]
    /\ UNCHANGED visitRest

VisitClose(symbol, order) ==
    /\ trade.calls < MaxVisitCalls
    /\ IsIteration(trade, order)
    /\ trade' = Returned(PositionCloseSymbol(trade, symbol, order))
    /\ visit' = Addressed("PositionClose", symbol, order)
    /\ UNCHANGED visitRest

VisitClosePartial(symbol, volume, order) ==
    /\ trade.calls < MaxVisitCalls
    /\ IsIteration(trade, order)
    /\ trade' = Returned(PositionClosePartialSymbol(trade, symbol, volume, order))
    /\ visit' = Addressed("PositionClosePartial", symbol, order)
    /\ UNCHANGED visitRest

VisitModify(symbol, sl, tp, order) ==
    /\ trade.calls < MaxVisitCalls
    /\ IsIteration(trade, order)
    /\ trade' = Returned(PositionModifySymbol(trade, symbol, sl, tp, order))
    /\ visit' = Addressed("PositionModify", symbol, order)
    /\ UNCHANGED visitRest

NextVisit ==
    \/ \E s \in Symbols, ty \in {"BUY", "SELL"} : VisitOpen(s, ty)
    \/ \E order \in VisitOrders : VisitGetPositions(order)
    \/ \E s \in Symbols, order \in VisitOrders : VisitClose(s, order)
    \/ \E s \in Symbols, v \in 1..LotsMax, order \in VisitOrders :
          VisitClosePartial(s, v, order)
    \/ \E s \in Symbols, sl \in {0} \cup Prices, tp \in {0} \cup Prices,
          order \in VisitOrders : VisitModify(s, sl, tp, order)

SpecVisit == Init /\ [][NextVisit]_vars

\* ======================================================================
\* MarginCalculator (margin_calculator.hpp): the stop-out queries
\* ======================================================================

\* total_margin times the leverage: the sum of volume * contract_size * price
\* over the positions (their symbol is registered and quoted in the account
\* currency, so no position is skipped or converted)
RECURSIVE total_margin(_)
total_margin(positions) ==
    IF positions = <<>> THEN 0
    ELSE MarginNotional(positions[1].volume, positions[1].price_open)
         + total_margin(Tail(positions))

\* should_stop_out: level = equity / margin * 100 < stop_out_level, with
\* margin = total_margin / Leverage > 0
should_stop_out(equity, positions, stop_out_level) ==
    IF positions = <<>> THEN FALSE
    ELSE IF total_margin(positions) <= 0 THEN FALSE
    ELSE equity * 100 * Leverage < stop_out_level * total_margin(positions)

\* find_largest_loser: the index (from 0) of the first position of the least
\* profit below 0.0, -1 when no profit is below 0.0
find_largest_loser(positions) ==
    LET losers == {k \in 1..Len(positions) : positions[k].profit_ < 0}
        worst == {k \in losers : \A j \in losers : positions[k].profit_ <= positions[j].profit_}
    IN IF losers = {} THEN NoLoser
       ELSE (CHOOSE k \in worst : \A j \in worst : k <= j) - 1

calcRest == <<loopVars, threadVars, histVars, eng, trade, clockVars, wal, feed, visit>>

\* if (calc.should_stop_out(account, positions, symbols)) ...
ShouldStopOut(equity, positions) ==
    /\ calc' = [op |-> "should_stop_out", equity |-> equity, positions |-> positions,
                required |-> should_stop_out(equity, positions, DefaultStopOutLevel),
                worst_idx |-> NoLoser]
    /\ UNCHANGED calcRest

\* ... int idx = calc.find_largest_loser(positions);  on the same positions
FindLargestLoser ==
    /\ calc.op = "should_stop_out"
    /\ calc' = [calc EXCEPT !.op = "find_largest_loser",
                            !.worst_idx = find_largest_loser(calc.positions)]
    /\ UNCHANGED calcRest

NextCalc ==
    \/ \E equity \in CalcEquities, positions \in CalcPositions : ShouldStopOut(equity, positions)
    \/ FindLargestLoser

SpecCalc == Init /\ [][NextCalc]_vars

\* ================================================================ properties
Inside(t) == pc[t] # Idle
HandledSince(h) == SubSeq(handled, h + 1, Len(handled))
IsSortedByTs(s) == \A a, b \in 1..Len(s) : a < b => s[a].ts <= s[b].ts
Min(a, b) == IF a < b THEN a ELSE b
\* The accepted call in progress ends in this step.
CallEnds == call.kind # "none" /\ call'.kind = "none"
\* The accepted call in progress returns in this step (no exception).
CallReturns == CallEnds /\ last' \in {"returned", "stopped"}

\* C1: every event handed to the handler has the smallest timestamp of the
\* events in the queue at the moment it is dequeued (so an earlier event pushed
\* during the handling of a later one is taken next), and while no event is
\* pushed during a call the events it hands over are in non-decreasing
\* timestamp order.
C1_EarliestFirst ==
    /\ [][\A t \in Threads :
            (event'[t] # event[t] /\ event'[t] # NoEvent)
            => /\ event'[t] \in queue_
               /\ \A e \in queue_ : event'[t].ts <= e.ts]_vars
    /\ [](call.kind # "none" /\ pushed = call.p0
          => IsSortedByTs(HandledSince(call.h0)))
\* Two events pushed latest-first have been handed over earliest-first.
C1_Witness ==
    /\ call.kind # "none" /\ call.h0 = 0 /\ Len(handled) >= 2
    /\ handled[1].id > handled[2].id
    /\ handled[1].ts < handled[2].ts

\* C2: at most one thread is inside run or step, and a call that throws
\* "already running" changes nothing of the loop: not the queue, the counters,
\* the flags, the position of the call in progress, nor what was handled.
C2_SingleRunner ==
    /\ [](Cardinality({t \in Threads : Inside(t)}) <= 1)
    /\ [][(rejected' /\ ~rejected)
          => UNCHANGED <<loopVars, threadVars, handled, returned, pushed, call, last>>]_vars
\* A call was rejected and a handler invocation of the accepted run is in progress.
C2_Witness == rejected /\ \E t \in Threads : At(t, "run", "in_handler")

\* C3: resume() never leaves a paused run blocked: no thread stays in
\* cv_.wait once paused_ is false again.
C3_ResumeWakesRun == ~(\E t \in Threads : pc[t] = Waiting /\ ~paused_ /\ ~stopped_)

\* C4: after a stop() issued during an accepted run, at most one more handler
\* invocation starts in that run.
C4_StopEndsRun == call.kind = "run" => call.sinceStop <= 1

\* C5: while the loop is paused (pause() called, no resume() since) and no
\* stop() is in effect, no handler invocation starts in a run.
C5_PauseHoldsRun ==
    [][(call.kind = "run" /\ paused_ /\ ~stopped_) => handled' = handled]_vars

\* C6: when stop() has ended a call, every pushed event that was not handed to
\* the handler is in the queue; and a run accepted after it that returns
\* without concurrent pushes has handed exactly the events it found in the
\* queue to the handler, in timestamp order.
C6_StopKeepsEvents ==
    /\ [](last = "stopped"
          => /\ IdsOf(queue_) \cup IdsOf(Range(handled)) = 1..pushed
             /\ IdsOf(queue_) \cap IdsOf(Range(handled)) = {})
    /\ [][(CallReturns /\ call.kind = "run" /\ call.afterStop /\ last' = "returned"
           /\ pushed = call.p0)
          => /\ Range(HandledSince(call.h0)) = call.q0
             /\ Len(HandledSince(call.h0)) = Cardinality(call.q0)
             /\ IsSortedByTs(HandledSince(call.h0))
             /\ queue_' = {}]_vars
\* A run that follows a stopped call is about to return, having handed over
\* the events left in the queue.
C6_Witness ==
    /\ \E t \in Threads : At(t, "run", "exit")
    /\ call.afterStop /\ call.why = "empty" /\ pushed = call.p0
    /\ Cardinality(call.q0) >= 2
    /\ Len(handled) - call.h0 = Cardinality(call.q0)

\* C7: with no pause() and no stop() ever called, an event pushed after a run
\* was accepted and before it returned is not in the queue when the run returns.
C7_PushedEventHandled ==
    [][(CallReturns /\ call.kind = "run")
       => \A e \in queue_' : e.id <= call.p0]_vars

\* C11: events_processed_ equals the number of handler invocations that
\* returned since the counter was last reset (by run, step or clear); an
\* invocation that threw is not counted.
C11_CountsReturns == events_processed_ = returned
\* A call counted one invocation that returned and was left by the exception
\* of the next one.
C11_Witness ==
    /\ last = "exception" /\ Len(handled) = 2
    /\ events_processed_ = 1 /\ ~running_

\* is_running() / is_paused(): the lifecycle state an observer reads.
Phase == IF ~running_ THEN "IDLE" ELSE IF paused_ THEN "PAUSED" ELSE "RUNNING"

\* C12: the lifecycle state changes only by IDLE -> RUNNING, RUNNING -> PAUSED,
\* PAUSED -> RUNNING, RUNNING -> IDLE and PAUSED -> IDLE; in particular PAUSED
\* is not entered from IDLE and an accepted run starts in RUNNING.
C12_Lifecycle ==
    [][Phase' # Phase
       => <<Phase, Phase'>> \in {<<"IDLE", "RUNNING">>, <<"RUNNING", "PAUSED">>,
                                 <<"PAUSED", "RUNNING">>, <<"RUNNING", "IDLE">>,
                                 <<"PAUSED", "IDLE">>}]_vars

\* C8: between two Engine calls, every event taken from the queue has been
\* delivered to the tick callback: the number of callbacks equals the number of
\* events consumed, also after a callback paused or stopped the Engine.
C8_EveryTickDelivered == EngineIdle => eng.tick_count = Len(handled)

\* C9: an exception of the handler does not end the call: no run or step is
\* left by an exception.
C9_ExceptionSwallowed == last # "exception"

PositionTicketsOf(tr) == {p.ticket : p \in tr.positions_}
OrderTicketsOf(tr) == {o.ticket : o \in tr.orders_}
DealTicketsOf(tr) == {tr.deals_[k].ticket : k \in 1..Len(tr.deals_)}
HistoryTicketsOf(tr) == {tr.history_orders_[k].ticket : k \in 1..Len(tr.history_orders_)}

\* C13: the tickets of positions, pending orders and deals come from one
\* counter that starts at 1000: as long as RestoreSnapshot was not called, the
\* first ticket issued is 1000, each ticket issued is greater than every one
\* issued before it, and no two entities share a ticket.
C13_TicketsIncrease ==
    ~trade.restored =>
        /\ \A k \in 1..Len(trade.issued) : trade.issued[k] >= FirstTicket
        /\ trade.issued # <<>> => trade.issued[1] = FirstTicket
        /\ \A j, k \in 1..Len(trade.issued) : j < k => trade.issued[j] < trade.issued[k]
        /\ Cardinality(PositionTicketsOf(trade) \cup OrderTicketsOf(trade)
                       \cup DealTicketsOf(trade) \cup HistoryTicketsOf(trade))
           = Cardinality(trade.positions_) + Cardinality(trade.orders_)
             + Len(trade.deals_) + Len(trade.history_orders_)
\* A position, a pending order and a deal exist, and no snapshot was restored.
C13_Witness ==
    /\ ~trade.restored
    /\ trade.positions_ # {} /\ trade.orders_ # {} /\ trade.deals_ # <<>>
    /\ Len(trade.issued) = 3

\* C14: after any command of the ledger, equity is the balance plus the sum
\* of the profit of the open positions.
C14_EquityIsBalancePlusProfit ==
    trade.account_.equity_ = trade.account_.balance_ + SumProfit(trade.positions_)

\* C15: after any sequence of opens, closes, partial closes and close-bys the
\* used margin is the sum of the required margin of the open positions at
\* their current volumes: in particular it is zero when no position is open.
C15_MarginIsRequired == trade.account_.margin_ = SumMargin(trade.positions_)

\* The price a market request executes at (CTrade::ExecuteRequest).
ExecPrice(tr, symbol, type) == IF type = "BUY" THEN tr.ask[symbol] ELSE tr.bid[symbol]
\* equity / (used margin + required margin of the new position) * 100 < 100
LevelBelow100(tr, symbol, type, volume) ==
    tr.account_.equity_ * Leverage
        < tr.account_.margin_ * Leverage
          + MarginNotional(volume, ExecPrice(tr, symbol, type))

\* C16: a position_open request with a registered symbol and a volume within
\* the lot limits is rejected with NO_MONEY exactly when the margin level after
\* the trade would be below 100%; a rejected request opens no position and
\* reserves no margin.
C16_NoMoneyIffLevelBelow100 ==
    \A s \in Symbols, ty \in {"BUY", "SELL"}, v \in LotsMin..LotsMax, p \in {0} \cup Prices :
        LET r == PositionOpen(trade, s, ty, v, p, 0, 0) IN
        /\ r.retcode = "NO_MONEY" <=> LevelBelow100(trade, s, ty, v)
        /\ r.retcode = "NO_MONEY" =>
               r.positions_ = trade.positions_ /\ r.account_ = trade.account_

\* C17: a command of the ledger that fails leaves the positions, the active
\* orders, the deals, the history orders, the account figures and the ticket
\* counter as they were before the command.
C17_FailureChangesNothing ==
    [][trade'.failed => Ledger(trade') = Ledger(trade)]_vars
\* An open has just been refused for lack of margin while a position is open.
C17_Witness ==
    trade.failed /\ trade.retcode = "NO_MONEY" /\ trade.positions_ # {}

\* The history orders of the ledger, as a set.
HistoryOrdersOf(tr) == {tr.history_orders_[k] : k \in 1..Len(tr.history_orders_)}

\* C18: every active order is PLACED or PARTIAL, every history order is in a
\* terminal state, and no ticket is in both; order_delete of an active order
\* takes it out of the active orders and appends it to the history orders with
\* state CANCELED and time_done set to the ledger's current time.
C18_OrderStates ==
    /\ \A o \in trade.orders_ : o.state \in {"PLACED", "PARTIAL"}
    /\ \A h \in HistoryOrdersOf(trade) :
           h.state \in {"FILLED", "CANCELED", "EXPIRED", "REJECTED"}
    /\ OrderTicketsOf(trade) \cap HistoryTicketsOf(trade) = {}
    /\ \A o \in trade.orders_ :
           LET r == OrderDelete(trade, o.ticket)
               h == r.history_orders_[Len(r.history_orders_)]
           IN /\ r.orders_ = trade.orders_ \ {o}
              /\ Len(r.history_orders_) = Len(trade.history_orders_) + 1
              /\ \A k \in 1..Len(trade.history_orders_) :
                     r.history_orders_[k] = trade.history_orders_[k]
              /\ h.ticket = o.ticket /\ h.state = "CANCELED"
              /\ h.time_done = trade.current_time_us_
\* An order placed after a tick has been deleted.
C18_Witness ==
    \E h \in HistoryOrdersOf(trade) : h.state = "CANCELED" /\ h.time_done > 0

\* CostsEngine::evaluate_position, the part that decides whether a stop-loss
\* or a take-profit of the position is hit by a tick (result.executed).
evaluate_position(pos, bid, ask) ==
    IF pos.type = "BUY"
    THEN \/ pos.sl > 0 /\ bid <= pos.sl
         \/ pos.tp > 0 /\ bid >= pos.tp
    ELSE \/ pos.sl > 0 /\ ask >= pos.sl
         \/ pos.tp > 0 /\ ask <= pos.tp

\* CostsEngine::evaluate_order, the part that decides whether a pending order
\* triggers on a tick.
evaluate_order(order, bid, ask) ==
    CASE order.type = "BUY_LIMIT" -> ask <= order.price_open
      [] order.type = "SELL_LIMIT" -> bid >= order.price_open
      [] order.type = "BUY_STOP" -> ask >= order.price_open
      [] order.type = "SELL_STOP" -> bid <= order.price_open
      [] OTHER -> FALSE

\* C19: after a tick for symbol s has been processed, no position on s whose
\* stop-loss or take-profit is hit by that tick is still open.
C19_StopsCloseOnTick ==
    \A s \in Symbols, bid \in Prices, ask \in Prices :
        ask >= bid =>
            LET r == ProcessTick(trade, s, bid, ask) IN
            \A pos \in r.positions_ :
                pos.symbol = s => ~evaluate_position(pos, bid, ask)

\* C20: after a tick for symbol s has been processed, no pending order on s
\* whose trigger condition holds for that tick is still an active order.
C20_OrdersFillOnTick ==
    \A s \in Symbols, bid \in Prices, ask \in Prices :
        ask >= bid =>
            LET r == ProcessTick(trade, s, bid, ask) IN
            \A order \in r.orders_ :
                order.symbol = s => ~evaluate_order(order, bid, ask)

\* AccountInfo::margin_so_so_, the stop-out level in percent.
StopOutLevel == 50

\* AccountInfo::IsStopOut: margin_ > 0 && margin_level_ < margin_so_so_, with
\* margin_level_ = equity_ / margin_ * 100 as UpdateEquity leaves it.
IsStopOut(account) ==
    account.margin_ > 0 /\ account.equity_ * 100 < account.margin_ * StopOutLevel

\* C21: when tick processing finishes, the margin level is at or above the
\* stop-out threshold, or no position is open, or the used margin is zero.
C21_StopOutOnTick ==
    \A s \in Symbols, bid \in Prices, ask \in Prices :
        ask >= bid =>
            LET r == ProcessTick(trade, s, bid, ask) IN
            \/ ~IsStopOut(r.account_)
            \/ r.positions_ = {}
            \/ r.account_.margin_ = 0

\* C22: when the tick callback is invoked for a tick of symbol s with
\* timestamp t, the tick has already been applied: the ledger holds the tick's
\* prices and time and the GlobalClock entry of s equals t.
C22_CallbackSeesTick ==
    on_tick_.called =>
        /\ on_tick_.ledger_bid = on_tick_.bid
        /\ on_tick_.ledger_ask = on_tick_.ask
        /\ on_tick_.ledger_time = on_tick_.timestamp_us
        /\ on_tick_.symbol_time = on_tick_.timestamp_us

\* The least timestamp among the tracked symbols ids of the clock.
LeastTime(clock, ids) ==
    CHOOSE m \in {clock.symbol_timestamps_[id] : id \in ids} :
        \A id \in ids : m <= clock.symbol_timestamps_[id]

C26_CanAdvanceIffOthersAllow ==
    \A id \in SymbolIds, target \in ClockTimes :
        can_advance(global_clock_, id, target)
            <=> \A other \in Tracked(global_clock_) \ {id} :
                    target <= global_clock_.symbol_timestamps_[other]

\* The ledger as it was when the snapshot was taken: what RestoreSnapshot
\* leaves, at the time of the snapshot.
AtSnapshot(tr) == [RestoreSnapshot(tr) EXCEPT !.current_time_us_ = tr.snap.time]

\* C24: whatever was executed after create_snapshot, restore_snapshot yields
\* the ledger of the snapshot: account, positions, active orders, deals,
\* history orders, symbols and next ticket are those of the snapshot, and a
\* later command (here order_delete of any active order, position_open of any
\* kind) behaves as it would have from the state the snapshot was taken in.
C24_RestoreYieldsSnapshotState ==
    trade.snap.taken =>
        LET r == RestoreSnapshot(trade)
            S == AtSnapshot(trade)
        IN /\ Ledger(r) = trade.snap.ledger
           /\ r.bid = trade.snap.bid /\ r.ask = trade.snap.ask
           /\ \A o \in r.orders_ :
                  Ledger(OrderDelete(r, o.ticket)) = Ledger(OrderDelete(S, o.ticket))
           /\ \A s \in Symbols, ty \in {"BUY", "SELL"}, v \in LotsMin..LotsMax :
                  Ledger(PositionOpen(r, s, ty, v, 0, 0, 0))
                      = Ledger(PositionOpen(S, s, ty, v, 0, 0, 0))

\* C23: for a position with a trailing stop, over price updates and calls of
\* update_trailing_stops the stop-loss, once set, never decreases for a BUY and
\* never increases for a SELL.
C23_TrailingStopOneWay ==
    [][\A p \in trade.positions_, q \in trade'.positions_ :
          (p.ticket = q.ticket /\ p.trailing_distance_ # 0 /\ p.sl # 0) =>
              IF p.type = "BUY" THEN q.sl >= p.sl ELSE q.sl <= p.sl]_vars
\* UpdateTrailingStops has just run on a position whose stop is set and whose
\* candidate is worse than the stop.
C23_Witness ==
    /\ trade.trailed
    /\ \E p \in trade.positions_ :
           /\ p.trailing_distance_ # 0 /\ p.sl > 0
           /\ IF p.type = "BUY" THEN TrailCandidate(p) < p.sl
              ELSE TrailCandidate(p) > p.sl

\* ---- C27..C29: the write-ahead log

\* What a read of the open log delivered.
Delivered(op) == wal.op = op /\ wal.result.kind # "not_open"

\* C27: after any appends, with mark_checkpoint and close/reopen in between,
\* read_all returns exactly the entries logged so far, with their types and
\* payload bytes, in the order they were logged.
C27_ReadAllRoundTrip ==
    (Delivered("read_all") /\ ~wal.truncated)
        => /\ wal.result.kind = "entries"
           /\ wal.result.entries = wal.expected

\* The entries logged after the most recent mark_checkpoint (all of them when
\* none was marked).
Uncommitted ==
    IF wal.marked = NoMark THEN wal.expected
    ELSE SubSeq(wal.expected, wal.marked + 2, Len(wal.expected))

\* C28: read_uncommitted returns exactly the entries appended after the most
\* recent mark_checkpoint, in append order, whatever their types.
C28_UncommittedAfterLastMark ==
    (Delivered("read_uncommitted") /\ ~wal.truncated)
        => /\ wal.result.kind = "entries"
           /\ wal.result.entries = Uncommitted

\* C29: once truncate_to_checkpoint has cut the log at the most recent
\* checkpoint, read_all returns exactly the entries appended before that
\* checkpoint followed by those appended since the cut.
C29_TruncateKeepsCommitted ==
    (Delivered("read_all") /\ wal.truncated)
        => /\ wal.result.kind = "entries"
           /\ wal.result.entries = wal.expected

\* ---- C30: point-in-time queries of the bar feed

Eligible(bars, as_of) == SelectSeq(bars, LAMBDA b : b.timestamp_us <= as_of)

Count(seq, b) == Cardinality({k \in DOMAIN seq : seq[k] = b})

\* result is the limit latest (or all, if fewer) of the bars of the series
\* with timestamp <= as_of, newest first.
LatestFirst(result, bars, as_of, limit) ==
    LET eligible == Eligible(bars, as_of)
    IN /\ Len(result) = IF limit < Len(eligible) THEN limit ELSE Len(eligible)
       /\ \A k \in 1..(Len(result) - 1) :
             result[k].timestamp_us >= result[k + 1].timestamp_us
       /\ \A k \in DOMAIN result : Count(result, result[k]) <= Count(eligible, result[k])
       /\ \A j \in DOMAIN eligible :
             Count(result, eligible[j]) < Count(eligible, eligible[j])
                => \A k \in DOMAIN result :
                      eligible[j].timestamp_us <= result[k].timestamp_us

NoneAfter(result, as_of) ==
    \A k \in DOMAIN result : result[k].timestamp_us <= as_of

Ascending(bars) ==
    \A k \in 1..(Len(bars) - 1) : bars[k].timestamp_us <= bars[k + 1].timestamp_us

Answered(op) == feed.op = op /\ feed.result.kind # "error"

\* C30: for every loaded series and every as_of, get_bars and get_last_bar
\* return no bar with timestamp > as_of, and get_bars(as_of, n) returns the at
\* most n latest bars with timestamp <= as_of, newest first.
C30_PointInTime ==
    /\ Answered("get_last_bar") => NoneAfter(feed.result.bars, feed.timestamp_us)
    /\ Answered("get_bars") =>
          /\ NoneAfter(feed.result.bars, feed.timestamp_us)
          /\ LatestFirst(feed.result.bars, feed.bars, feed.timestamp_us, feed.max_bars)

\* C30 as the code has it: get_last_bar returns no bar with timestamp > as_of;
\* for a series loaded in ascending timestamp order, get_bars(as_of, n) returns
\* no such bar either and returns the n latest bars with timestamp <= as_of,
\* newest first, where n = 0 stands for all of them.
C30_PointInTimeAscending ==
    /\ Answered("get_last_bar") => NoneAfter(feed.result.bars, feed.timestamp_us)
    /\ (Answered("get_bars") /\ Ascending(feed.bars)) =>
          /\ NoneAfter(feed.result.bars, feed.timestamp_us)
          /\ LatestFirst(feed.result.bars, feed.bars, feed.timestamp_us,
                         IF feed.max_bars = 0 THEN Len(feed.bars) ELSE feed.max_bars)

\* get_bars with max_bars = 0 answered with two bars of an ascending series
\* that also holds a later bar.
C30_Witness ==
    /\ Answered("get_bars") /\ Ascending(feed.bars)
    /\ feed.max_bars = 0
    /\ Len(feed.result.bars) = 2
    /\ \E k \in DOMAIN feed.bars : feed.bars[k].timestamp_us > feed.timestamp_us

\* ---- C31: the ledger and the order of its hash containers

\* C31: GetPositions() returns the positions in ticket order, and a
\* symbol-addressed close, partial close or modify acts on the position a
\* visit in ticket order finds, whatever order the container iterates in.
C31_VisitsInTicketOrder ==
    /\ visit.op = "GetPositions" =>
          \A k \in 1..(Len(visit.order) - 1) : visit.order[k] < visit.order[k + 1]
    /\ visit.op \in {"PositionClose", "PositionClosePartial", "PositionModify"} =>
          visit.ticket = visit.lowest

\* ---- C32: position_modify and the stops level

\* SymbolInfo::StopsLevel(), in points, of the symbol of the instance
StopsLevel == 1

\* A requested stop-loss or take-profit (0: none) lies closer than the stops
\* level to the price the position would close at, on the adverse side.
TooClose(tr, pos, sl, tp) ==
    LET market == ClosePrice(tr, pos)
    IN IF pos.type = "BUY"
       THEN (sl > 0 /\ sl > market - StopsLevel) \/ (tp > 0 /\ tp < market + StopsLevel)
       ELSE (sl > 0 /\ sl < market + StopsLevel) \/ (tp > 0 /\ tp > market - StopsLevel)

\* C32: position_modify(ticket, sl, tp) on an open position rejects stops
\* closer than the stops level to the market and then leaves the position
\* unchanged; otherwise it sets the position's SL and TP to the requested values.
C32_ModifyValidatesStops ==
    [][\A t \in Tickets, sl \in {0} \cup Prices, tp \in {0} \cup Prices :
          (DoPositionModify(t, sl, tp) /\ HasPosition(trade, t)) =>
              IF TooClose(trade, Position(trade, t), sl, tp)
              THEN trade'.failed /\ trade'.positions_ = trade.positions_
              ELSE /\ ~trade'.failed
                   /\ Position(trade', t).sl = sl
                   /\ Position(trade', t).tp = tp]_vars

\* ---- C33: the deal of an opening

\* C33: every successful position_open appends exactly one deal to the deal
\* log, an IN deal of the position it has created.
C33_OpenAppendsInDeal ==
    [][\A s \in Symbols, ty \in {"BUY", "SELL"}, v \in 1..LotsMax, p \in {0} \cup Prices :
          (DoPositionOpen(s, ty, v, p) /\ ~trade'.failed) =>
              /\ Len(trade'.deals_) = Len(trade.deals_) + 1
              /\ trade'.deals_[Len(trade'.deals_)].entry = "IN"
              /\ trade'.deals_[Len(trade'.deals_)].position_id = trade.next_ticket_
              /\ HasPosition(trade', trade.next_ticket_)]_vars

\* ---- C34: partial closes

\* Volumes a caller may pass to position_close_partial
CloseVolumes == (-1)..(LotsMax + 1)

NextPartial ==
    \/ \E s \in Symbols, ty \in {"BUY", "SELL"}, v \in 1..LotsMax :
          DoPositionOpen(s, ty, v, 0)
    \/ \E s \in Symbols, b \in Prices, a \in Prices : DoTick(s, b, a)
    \/ \E t \in Tickets, v \in CloseVolumes : DoPositionClosePartial(t, v)

SpecPartial == Init /\ [][NextPartial]_vars

\* The three statements of C34 about PositionClosePartial(t, v) on an open
\* position of volume V.
PartialReduces(t, v) ==
    LET pos == Position(trade, t)
    IN (0 < v /\ v < pos.volume) =>
          /\ HasPosition(trade', t)
          /\ Position(trade', t).volume = pos.volume - v
          /\ trade'.account_.margin_ =
                trade.account_.margin_ - MarginFp(pos.volume, pos.price_open)
                    + MarginFp(pos.volume - v, pos.price_open)

PartialPromotes(t, v) ==
    v >= Position(trade, t).volume => trade' = Returned(PositionClose(trade, t))

PartialKeepsVolumeInRange(t) ==
    HasPosition(trade', t) =>
        /\ Position(trade', t).volume > 0
        /\ Position(trade', t).volume <= Position(trade, t).volume

\* C34: position_close_partial(ticket, v) on a position of volume V leaves
\* volume V - v with proportionally reduced margin when 0 < v < V, is a full
\* close when v >= V, and never leaves a volume above V or not above zero.
C34_PartialClose ==
    [][\A t \in Tickets, v \in CloseVolumes :
          (DoPositionClosePartial(t, v) /\ HasPosition(trade, t)) =>
              /\ PartialReduces(t, v)
              /\ PartialPromotes(t, v)
              /\ PartialKeepsVolumeInRange(t)]_vars

\* ---- C35: margin level and free margin

\* equity / margin * 100 as MarginCalculator::margin_level gives it
margin_level(equity, margin) ==
    IF margin <= 0 THEN InfiniteLevel ELSE [num |-> equity * 100, den |-> margin]

\* C35: after any command margin_level is equity / margin * 100 when used
\* margin is greater than zero and infinite when it is zero, and margin_free
\* is equity - margin.
C35_MarginLevelAndFree ==
    trade.calls > 0 =>
        /\ trade.account_.margin_level_
              = margin_level(trade.account_.equity_, trade.account_.margin_)
        /\ trade.account_.margin_free_ = trade.account_.equity_ - trade.account_.margin_

\* C36: under any interleaving of push, push_batch, run, step, pause, resume
\* and stop (clear() is not called), every pushed event is either still in the
\* queue or has been handed to the handler exactly once: no event is handed
\* over twice, and none has left the queue without a handler invocation.
C36_QueuedOrHandledOnce ==
    /\ IdsOf(queue_) \cup IdsOf(Range(handled)) = 1..pushed
    /\ IdsOf(queue_) \cap IdsOf(Range(handled)) = {}
    /\ Cardinality(queue_) = Cardinality(IdsOf(queue_))
    /\ \A a, b \in 1..Len(handled) : handled[a].id = handled[b].id => a = b
\* A batch was pushed; one of its events is in the handler of a call that has
\* been paused and stopped meanwhile, the other is still queued.
C36_Witness ==
    /\ pushed = MaxEvents
    /\ Len(handled) = 1 /\ Cardinality(queue_) = MaxEvents - 1
    /\ paused_ /\ stopped_
    /\ \E t \in Threads, k \in Kinds : At(t, k, "in_handler")

\* ---- C37: read_uncommitted against truncate_to_checkpoint

\* The entries truncate_to_checkpoint would remove from the log as it is now.
WouldRemove ==
    LET kept == Len(truncate_to_checkpoint(wal).disk)
    IN [k \in 1..(Len(wal.disk) - kept) |->
           [type |-> wal.disk[kept + k].header.type, data |-> wal.disk[kept + k].data]]

\* last_checkpoint_pos_ is the offset at which the CHECKPOINT entry itself
\* begins; the marker is not counted among the entries removed.
WithoutMarker(entries) ==
    IF entries # <<>> /\ entries[1].type = CHECKPOINT THEN Tail(entries) ELSE entries

\* C37: once a checkpoint has been marked, read_uncommitted and
\* truncate_to_checkpoint agree on it: after any appends (of any entry type),
\* mark_checkpoint, close/reopen and truncate_to_checkpoint, the entries that
\* truncate_to_checkpoint would remove are exactly those read_uncommitted
\* returns, and read_uncommitted reports no entry appended before the most
\* recent mark_checkpoint.
C37_AgreeOnLastCheckpoint ==
    (Delivered("read_uncommitted") /\ wal.result.kind = "entries" /\ wal.marked # NoMark)
        => /\ WithoutMarker(WouldRemove) = wal.result.entries
           /\ Len(wal.disk) - Len(wal.result.entries) >= wal.marked

\* ---- C38: the balance against the deal log

RECURSIVE SumDeals(_)
SumDeals(deals) ==
    IF deals = <<>> THEN 0 ELSE deals[1].profit_ + SumDeals(Tail(deals))

\* The deals of one position
DealsOf(tr, id) == SelectSeq(tr.deals_, LAMBDA d : d.position_id = id)

\* The profit of closing the volume of a deal at the deal's price
DealExact(d) ==
    (IF d.type = "SELL" THEN d.price - d.entry_price ELSE d.entry_price - d.price)
    * d.volume * PointValue

RECURSIVE SumExact(_)
SumExact(deals) ==
    IF deals = <<>> THEN 0 ELSE DealExact(deals[1]) + SumExact(Tail(deals))

ClosedPositions(tr) ==
    {tr.deals_[k].position_id : k \in 1..Len(tr.deals_)}
        \ {p.ticket : p \in tr.positions_}

\* The balance is the initial balance plus the deals' profit - commission + swap
BalanceIsSumOfDeals == trade.account_.balance_ = InitialBalance + SumDeals(trade.deals_)

\* The balance changes only in a step that appends a deal
BalanceMovesWithDeal ==
    trade'.account_.balance_ # trade.account_.balance_
        => Len(trade'.deals_) = Len(trade.deals_) + 1

\* The realized profits of a closed position add up to the profit of closing
\* its volume at the prices of its closes
RealizedAddsUp ==
    \A id \in ClosedPositions(trade) :
        SumDeals(DealsOf(trade, id)) = SumExact(DealsOf(trade, id))

\* C38: after any sequence of ledger commands without restore_snapshot, the
\* balance is the initial balance plus the sum over the deal log of
\* profit - commission + swap; the balance changes only when a deal is
\* appended; and the realized profits of the partial closes and the final close
\* of one position add up to the profit of closing its whole volume at the
\* prices of those closes.
C38_BalanceFromDeals ==
    /\ [](~trade.restored => BalanceIsSumOfDeals)
    /\ [][~trade'.restored => BalanceMovesWithDeal]_vars
    /\ [](~trade.restored => RealizedAddsUp)


\* ---- C39: stop-out and the position to close

\* C39: whenever a stop-out is required (margin level below the stop-out
\* threshold with used margin > 0 and at least one open position),
\* find_largest_loser designates one of the open positions, so that every
\* iteration of a stop-out loop has a position to close.
C39_StopOutHasLoser ==
    (calc.op = "find_largest_loser" /\ calc.required)
        => calc.worst_idx \in 0..(Len(calc.positions) - 1)


\* ---- C40: the global time under ticks in ascending order

\* C40: when events are consumed in ascending timestamp order and each tick
\* updates the clock entry of its symbol, the global time (current_time(),
\* hence PITEnforcer::max_query_time()) never decreases over any sequence of
\* update_symbol calls, also when an update introduces a symbol that was not
\* tracked before.
C40_GlobalTimeNeverDecreases ==
    [][max_query_time(global_clock_') >= max_query_time(global_clock_)]_vars
\* A symbol not tracked before was introduced while another one was tracked,
\* and the global time has stayed at the earlier symbol's time, above 0.
C40_Witness ==
    /\ Cardinality(Tracked(global_clock_)) >= 2
    /\ max_query_time(global_clock_) > 0
    /\ \E id \in Tracked(global_clock_) :
           global_clock_.symbol_timestamps_[id] > max_query_time(global_clock_)

====
